---- MODULE Spec2Model ----
(***************************************************************************)
(* Model of src/app.py of package_tracker: the cache store                 *)
(* (JsonFileHandler over cache.json with its TTL overlay), the session     *)
(* token check (check_last_event_id_expiry / save_last_event_id /          *)
(* capture_last_event_id), the tracking pipeline (tracking) and its HTTP   *)
(* facade (api_package_info).                                              *)
(*                                                                         *)
(* Two specifications are defined:                                         *)
(*   Spec       the facade and the pipeline, one call after another, over  *)
(*              the cache file; cache reads and writes are atomic here.    *)
(*   SpecCache  JsonFileHandler alone, one statement per step, with        *)
(*              process crashes between any two statements.                *)
(***************************************************************************)
EXTENDS Integers, Sequences, FiniteSets, TLC

VARIABLES
    \* ---- the cache store (both specifications)
    file,       \* cache.json on disk: [exists, data]; data is the text, a token sequence
    tmp,        \* cache.json.tmp on disk, same shape
    overlay,    \* CACHE_CACHE, the TTLCache holding at most the one key: [present, doc, expires]
    clock,      \* the time in seconds (wall clock and TTLCache timer alike)
    nticks,     \* how often the clock has advanced
    \* ---- JsonFileHandler, statement by statement (SpecCache)
    cpc,        \* per thread: the statement the thread is at
    carg,       \* per thread: the document passed to write()
    cret,       \* per thread: how the last call ended: [kind, doc]
    cfile0,     \* per thread: cache.json as it was when the running call started
    cmiss,      \* per thread: the running read() found no live overlay entry
    creplaced,  \* per thread: os.replace ran in the running write()
    lastw,      \* per thread: [valid, doc] the document of the last successful write()
    cchecked,   \* per thread: the last read() was the first after a successful write()
    cfd,        \* per thread: where the file opened at line 133 is now: "tmp", "file", "unlinked", "closed"
    \* ---- the pipeline (Spec)
    pc,         \* the statement the request is at
    caller,     \* "facade" or "direct"
    trackings,  \* the argument of tracking(): a sequence of [num, slug]
    proxies,    \* the argument of tracking(): [kind, all]
    hours,      \* the argument of check_last_event_id_expiry()
    cache_data, \* tracking()'s local, the document read at its start
    token,      \* tracking()'s local last_event_id, an optional string
    chk,        \* the running expiry check: what it read and how it judged it
    data,       \* tracking()'s request body, data["data"]
    reqs,       \* the POSTs sent by the running call, in order
    response,   \* the backend's answer to the POST
    result,     \* how the running call ended: [kind, msg, map]
    log,        \* the effects of the running call, in order
    patched,    \* HTTPAdapter.get_connection is patched_get_connection
    ncalls,     \* the calls started so far
    http,       \* the facade's response: [code, status, message]
    all_trackings_results,  \* tracking()'s local: the results decoded so far
    di,         \* the entry of response_data["dat"] the loop of line 533 is at
    dj,         \* the item of data["data"] the loop of line 537 is at
    \* ---- one call of a function (SpecCall)
    call,       \* the function called and its argument: [fn, arg]
    value,      \* what the call returned: [v]
    done,       \* the call has returned
    adapter,    \* the HTTPAdapter of a session: [proxy_manager, pool_connections, pool_maxsize, pool_block]
    \* ---- the rotation daemon (SpecDaemon)
    daemon_states,  \* daemon_states["is_track_rotating"]["status"]
    dpc,        \* per loop: the statement the loop is at
    exe_type,   \* the daemon type the loops were started with
    dsaw,       \* per loop: the status the test of line 660 read last
    dheld,      \* per loop: the running cycle has set the status flag
    dcycles,    \* per loop: the cycles finished so far
    derrors     \* per loop: the errors caught and logged so far

cachevars == <<file, tmp, overlay, clock, nticks>>
handlervars == <<cpc, carg, cret, cfile0, cmiss, creplaced, lastw, cchecked, cfd>>
pipevars == <<pc, caller, trackings, proxies, hours, cache_data, token, chk, data,
              reqs, response, result, log, patched, ncalls, http,
              all_trackings_results, di, dj>>
callvars == <<call, value, done, adapter>>
daemonvars == <<daemon_states, exe_type, dpc, dsaw, dheld, dcycles, derrors>>
vars == <<cachevars, handlervars, pipevars, callvars, daemonvars>>

-----------------------------------------------------------------------------
(* Bounds of the model.                                                    *)

MaxTicks == 3       \* clock advances per behaviour
MaxOver == 1        \* how far a batch may exceed the limit of 40
MaxCapture == 2     \* capture attempts per expiry check that come back empty
MaxCalls == 2       \* pipeline calls per behaviour

(* Program constants.                                                      *)

TTL == 10               \* cachetools.TTLCache(maxsize=1, ttl=10)
BatchLimit == 40        \* len(trackings) > 40
PostTimeout == 10       \* requests.post(..., timeout=10)
DefaultHours == 1       \* check_last_event_id_expiry(..., hours: int = 1)
SecondsPerHour == 3600  \* datetime.timedelta(hours=hours)

-----------------------------------------------------------------------------
(* Values.  An optional value is a sequence of length 0 (None, or the key  *)
(* is absent) or 1.                                                        *)

None == <<>>
Some(x) == <<x>>
\* Python truthiness of an optional string: None and "" are falsy.
Truthy(o) == o # None /\ o # Some("")
(* The cache document.  rid and rexp are the ROOT keys last_event_id and   *)
(* last_event_id_expiry, which tracking() reads; sect says whether the     *)
(* TRACKING section exists (Section or None), and id, exp, ua, proxy, hour are its keys      *)
(* last_event_id, last_event_id_expiry, User_Agent, TRACKING_PROXY and     *)
(* TRACK_REFRESH_HOUR.  A timestamp string "%Y-%m-%d %H:%M:%S %Z" is the   *)
(* second it names.                                                        *)
Doc(rid, rexp, sect, id, exp, ua, proxy, hour) ==
    [rid |-> rid, rexp |-> rexp, sect |-> sect, id |-> id, exp |-> exp,
     ua |-> ua, proxy |-> proxy, hour |-> hour]

Section == Some("{}")

\* {"TRACKING": {}}
default_data == Doc(None, None, Section, None, None, None, <<>>, None)

Keys == <<"rid", "rexp", "sect", "id", "exp", "ua", "proxy", "hour">>

-----------------------------------------------------------------------------
(* json.dump and json.load.  The text of a document is "{", one token per  *)
(* key, "}".  json.dump writes the text chunk by chunk and raises at the   *)
(* first value it cannot encode, leaving the chunks before it written.     *)

Encodable(d, k) == k \notin {"rid", "id", "ua"} \/ d[k] # Some("<object>")

RECURSIVE DumpFrom(_, _)
DumpFrom(d, i) ==
    IF i > Len(Keys) THEN <<"}">>
    ELSE IF ~Encodable(d, Keys[i]) THEN <<>>
    ELSE <<d[Keys[i]]>> \o DumpFrom(d, i + 1)

\* What json.dump(d, file) leaves in the file.
json_dump(d) == <<"{">> \o DumpFrom(d, 1)

\* json.dump(d, file) raises TypeError.
DumpFails(d) == \E i \in 1..Len(Keys) : ~Encodable(d, Keys[i])

\* The text is one complete document.
Parsable(text) ==
    /\ Len(text) = Len(Keys) + 2
    /\ text[1] = "{"
    /\ text[Len(text)] = "}"

\* A json.load that loses the session timestamp.
json_load_lossy(text) ==
    Doc(text[2], text[3], text[4], text[5], None, text[7], text[8], text[9])

\* json.load(file) of a parsable text.
json_load(text) ==
    Doc(text[2], text[3], text[4], text[5], text[6], text[7], text[8], text[9])

-----------------------------------------------------------------------------
(* Files and the overlay.                                                  *)

NoFile == [exists |-> FALSE, data |-> <<>>]
FileOf(text) == [exists |-> TRUE, data |-> text]
\* os.path.exists(p) and os.path.getsize(p) > 0
NonEmpty(f) == f.exists /\ Len(f.data) > 0

NoEntry == [present |-> FALSE, doc |-> default_data, expires |-> 0]
\* self.cache[self.file_path] = doc at time now
Entry(doc, now) == [present |-> TRUE, doc |-> doc, expires |-> now + TTL]
-----------------------------------------------------------------------------
(* Documents the model draws from.                                         *)

\* datetime.now(tz=utc).strftime("%Y-%m-%d %H:%M:%S %Z"), lines 338-340: the
\* time of the clock, in seconds, as the fields of the text.
strftime(now) ==
    Some([d |-> now \div 86400, H |-> (now % 86400) \div 3600,
          M |-> (now % 3600) \div 60, S |-> now % 60, Z |-> "UTC"])
\* datetime.strptime(s, "%Y-%m-%d %H:%M:%S %Z").replace(tzinfo=utc), lines
\* 322-324, of a stored timestamp: the seconds it names.
strptime(s) == ((s[1].d * 24 + s[1].H) * 60 + s[1].M) * 60 + s[1].S

\* An operator-provisioned cache.json that holds no session yet.
DocFresh(proxy) == Doc(None, None, Section, None, None, Some("Mozilla/5.0"), proxy, Some(1))
\* The same with a session saved at second t.
DocSession(proxy, t) ==
    Doc(None, None, Section, Some("tok0"), strftime(t), Some("Mozilla/5.0"), proxy, Some(1))
-----------------------------------------------------------------------------
(* JsonFileHandler, one statement per step.  Threads is fixed: the         *)
(* request thread and the daemon thread of the process.                    *)

Threads == {"t1", "t2"}
MainThread == "t1"

Ret(op, kind, doc, note) == [op |-> op, kind |-> kind, doc |-> doc, note |-> note]
\* A call of read() starts.
CallRead(p) ==
    /\ cpc[p] = "idle"
    /\ cpc' = [cpc EXCEPT ![p] = "r_cache"]
    /\ cfile0' = [cfile0 EXCEPT ![p] = file]
    /\ cmiss' = [cmiss EXCEPT ![p] = FALSE]
    /\ cret' = [cret EXCEPT ![p] = [op |-> "none", kind |-> "none", doc |-> default_data, note |-> "none"]]
    /\ UNCHANGED <<cachevars, carg, creplaced, lastw, cchecked, cfd, pipevars, callvars, daemonvars>>

\* A read() that renews the overlay entry it serves.
ReadCacheRenewing(p) ==
    /\ cpc[p] = "r_cache"
    /\ IF (overlay.present /\ clock < overlay.expires)
       THEN /\ cpc' = [cpc EXCEPT ![p] = "idle"]
            /\ cret' = [cret EXCEPT ![p] = Ret("read", "returned", overlay.doc, "overlay")]
            /\ cchecked' = [cchecked EXCEPT ![p] = lastw[p].valid]
            /\ lastw' = [lastw EXCEPT ![p].valid = FALSE]
            /\ overlay' = Entry(overlay.doc, clock)
            /\ UNCHANGED cmiss
       ELSE /\ cpc' = [cpc EXCEPT ![p] = "r_file"]
            /\ cmiss' = [cmiss EXCEPT ![p] = TRUE]
            /\ UNCHANGED <<cret, cchecked, lastw, overlay>>
    /\ UNCHANGED <<file, tmp, clock, nticks, carg, cfile0, creplaced, cfd, pipevars, callvars, daemonvars>>

\* read(), lines 114-115: a live overlay entry is returned as it is.
ReadCache(p) ==
    /\ cpc[p] = "r_cache"
    /\ IF (overlay.present /\ clock < overlay.expires)
       THEN /\ cpc' = [cpc EXCEPT ![p] = "idle"]
            /\ cret' = [cret EXCEPT ![p] = Ret("read", "returned", overlay.doc, "overlay")]
            /\ cchecked' = [cchecked EXCEPT ![p] = lastw[p].valid]
            /\ lastw' = [lastw EXCEPT ![p].valid = FALSE]
            /\ UNCHANGED cmiss
       ELSE /\ cpc' = [cpc EXCEPT ![p] = "r_file"]
            /\ cmiss' = [cmiss EXCEPT ![p] = TRUE]
            /\ UNCHANGED <<cret, cchecked, lastw>>
    /\ UNCHANGED <<cachevars, carg, cfile0, creplaced, cfd, pipevars, callvars, daemonvars>>

\* read(), lines 117-125: load the file, or initialize it when it is absent or
\* empty.  json.load raises json.JSONDecodeError on an unparsable text, and
\* read() catches only FileNotFoundError.
ReadFile(p) ==
    /\ cpc[p] = "r_file"
    /\ IF NonEmpty(file)
       THEN /\ cpc' = [cpc EXCEPT ![p] = "idle"]
            /\ cchecked' = [cchecked EXCEPT ![p] = lastw[p].valid]
            /\ lastw' = [lastw EXCEPT ![p].valid = FALSE]
            /\ IF Parsable(file.data)
               THEN /\ overlay' = Entry(json_load(file.data), clock)
                    /\ cret' = [cret EXCEPT ![p] =
                                   Ret("read", "returned", json_load(file.data), "file")]
               ELSE /\ overlay' = overlay
                    /\ cret' = [cret EXCEPT ![p] =
                                   Ret("read", "raised", default_data, "JSONDecodeError")]
       ELSE /\ cpc' = [cpc EXCEPT ![p] = "i_check"]
            /\ UNCHANGED <<overlay, cret, cchecked, lastw>>
    /\ UNCHANGED <<file, tmp, clock, nticks, carg, cfile0, cmiss, creplaced, cfd, pipevars, callvars, daemonvars>>

\* initialize(), line 143; afterwards read() calls itself (lines 125, 129).
InitCheck(p) ==
    /\ cpc[p] = "i_check"
    /\ cpc' = [cpc EXCEPT ![p] = IF NonEmpty(file) THEN "r_cache" ELSE "i_open"]
    /\ UNCHANGED <<cachevars, carg, cret, cfile0, cmiss, creplaced, lastw, cchecked,
                   cfd, pipevars, callvars, daemonvars>>

\* initialize(), line 144: open(self.file_path, 'w') creates or truncates cache.json.
InitOpen(p) ==
    /\ cpc[p] = "i_open"
    /\ file' = FileOf(<<>>)
    /\ cpc' = [cpc EXCEPT ![p] = "i_dump"]
    /\ UNCHANGED <<tmp, overlay, clock, nticks, carg, cret, cfile0, cmiss, creplaced,
                   lastw, cchecked, cfd, pipevars, callvars, daemonvars>>

\* initialize(), line 145 and the end of the with block: the text reaches the file.
InitDump(p) ==
    /\ cpc[p] = "i_dump"
    /\ file' = FileOf(json_dump(default_data))
    /\ cpc' = [cpc EXCEPT ![p] = "r_cache"]
    /\ UNCHANGED <<tmp, overlay, clock, nticks, carg, cret, cfile0, cmiss, creplaced,
                   lastw, cchecked, cfd, pipevars, callvars, daemonvars>>

\* A call of write(d) starts.
CallWrite(p, d) ==
    /\ cpc[p] = "idle"
    /\ cpc' = [cpc EXCEPT ![p] = "w_open"]
    /\ carg' = [carg EXCEPT ![p] = d]
    /\ cfile0' = [cfile0 EXCEPT ![p] = file]
    /\ creplaced' = [creplaced EXCEPT ![p] = FALSE]
    /\ cret' = [cret EXCEPT ![p] = [op |-> "none", kind |-> "none", doc |-> default_data, note |-> "none"]]
    /\ lastw' = [lastw EXCEPT ![p].valid = FALSE]
    /\ UNCHANGED <<cachevars, cmiss, cchecked, cfd, pipevars, callvars, daemonvars>>

\* write(), line 133: open(temp_file, 'w').
WriteOpen(p) ==
    /\ cpc[p] = "w_open"
    /\ tmp' = FileOf(<<>>)
    /\ cfd' = [cfd EXCEPT ![p] = "tmp"]
    /\ cpc' = [cpc EXCEPT ![p] = "w_dump"]
    /\ UNCHANGED <<file, overlay, clock, nticks, carg, cret, cfile0, cmiss, creplaced,
                   lastw, cchecked, pipevars, callvars, daemonvars>>

\* What a file holds after text was written to it from its start.
WriteFrom0(old, text) == text \o SubSeq(old, Len(text) + 1, Len(old))

\* The text reaches the file the handle of line 133 is open on, which is
\* cache.json.tmp unless another write() has renamed or replaced it since.
Flush(p) ==
    /\ tmp' = IF cfd[p] = "tmp"
              THEN FileOf(WriteFrom0(tmp.data, json_dump(carg[p]))) ELSE tmp
    /\ file' = IF cfd[p] = "file"
               THEN FileOf(WriteFrom0(file.data, json_dump(carg[p]))) ELSE file
    /\ cfd' = [cfd EXCEPT ![p] = "closed"]

\* A write() whose except branch does not return.
WriteDumpNoReturn(p) ==
    /\ cpc[p] = "w_dump"
    /\ Flush(p)
    /\ cpc' = [cpc EXCEPT ![p] = "w_replace"]
    /\ UNCHANGED <<overlay, clock, nticks, carg, cret, cfile0, cmiss, creplaced,
                   lastw, cchecked, pipevars, callvars, daemonvars>>

\* write(), lines 134-138: json.dump into the temporary file, flushed when
\* the with block ends; on TypeError or ValueError the message is printed
\* and write() returns.
WriteDump(p) ==
    /\ cpc[p] = "w_dump"
    /\ Flush(p)
    /\ IF DumpFails(carg[p])
       THEN /\ cpc' = [cpc EXCEPT ![p] = "idle"]
            /\ cret' = [cret EXCEPT ![p] = Ret("write", "returned", carg[p], "invalid")]
       ELSE /\ cpc' = [cpc EXCEPT ![p] = "w_replace"]
            /\ UNCHANGED cret
    /\ UNCHANGED <<overlay, clock, nticks, carg, cfile0, cmiss, creplaced, lastw,
                   cchecked, pipevars, callvars, daemonvars>>

\* write(), line 139: os.replace(temp_file, self.file_path).  The file
\* keeps its open handles under its new name; the file it replaces has no
\* name any more.
os_replace(p) ==
    /\ file' = FileOf(tmp.data)
    /\ tmp' = NoFile
    /\ cfd' = [q \in Threads |-> IF cfd[q] = "tmp" THEN "file"
                                 ELSE IF cfd[q] = "file" THEN "unlinked" ELSE cfd[q]]
    /\ creplaced' = [creplaced EXCEPT ![p] = TRUE]

WriteReplace(p) ==
    /\ cpc[p] = "w_replace"
    /\ IF tmp.exists
       THEN /\ os_replace(p)
            /\ cpc' = [cpc EXCEPT ![p] = "w_cache"]
            /\ UNCHANGED cret
       ELSE /\ cpc' = [cpc EXCEPT ![p] = "idle"]
            /\ cret' = [cret EXCEPT ![p] =
                           Ret("write", "raised", carg[p], "FileNotFoundError")]
            /\ UNCHANGED <<file, tmp, creplaced, cfd>>
    /\ UNCHANGED <<overlay, clock, nticks, carg, cfile0, cmiss, lastw, cchecked,
                   pipevars, callvars, daemonvars>>

\* write(), line 140: self.cache[self.file_path] = data.
WriteCache(p) ==
    /\ cpc[p] = "w_cache"
    /\ overlay' = Entry(carg[p], clock)
    /\ cpc' = [cpc EXCEPT ![p] = "idle"]
    /\ cret' = [cret EXCEPT ![p] = Ret("write", "returned", carg[p], "written")]
    /\ lastw' = [lastw EXCEPT ![p] = [valid |-> TRUE, doc |-> carg[p]]]
    /\ UNCHANGED <<file, tmp, clock, nticks, carg, cfile0, cmiss, creplaced, cchecked,
                   cfd, pipevars, callvars, daemonvars>>

\* The process dies between two statements and is started again: the files
\* stay as they are, the overlay and every thread's position are lost.
Crash ==
    /\ \E p \in Threads : cpc[p] # "idle"
    /\ cpc' = [p \in Threads |-> "idle"]
    /\ cret' = [p \in Threads |-> [op |-> "none", kind |-> "none", doc |-> default_data, note |-> "none"]]
    /\ lastw' = [p \in Threads |-> [valid |-> FALSE, doc |-> default_data]]
    /\ overlay' = NoEntry
    /\ cfd' = [p \in Threads |-> "closed"]
    /\ UNCHANGED <<file, tmp, clock, nticks, carg, cfile0, cmiss, creplaced, cchecked,
                   pipevars, callvars, daemonvars>>

\* Time passes.
Tick(steps) ==
    /\ nticks < MaxTicks
    /\ \E d \in steps : clock' = clock + d
    /\ nticks' = nticks + 1
    /\ UNCHANGED <<file, tmp, overlay, handlervars, pipevars, callvars, daemonvars>>

-----------------------------------------------------------------------------
(* The idle values of the two groups of variables.                         *)

HandlerIdle ==
    /\ cpc = [p \in Threads |-> "idle"]
    /\ carg = [p \in Threads |-> default_data]
    /\ cret = [p \in Threads |-> [op |-> "none", kind |-> "none", doc |-> default_data, note |-> "none"]]
    /\ cfile0 = [p \in Threads |-> NoFile]
    /\ cmiss = [p \in Threads |-> FALSE]
    /\ creplaced = [p \in Threads |-> FALSE]
    /\ lastw = [p \in Threads |-> [valid |-> FALSE, doc |-> default_data]]
    /\ cchecked = [p \in Threads |-> FALSE]
    /\ cfd = [p \in Threads |-> "closed"]

NoChk == [id |-> None, exp |-> None, now |-> 0, expired |-> FALSE, captures |-> 0,
          wrote |-> FALSE, ret |-> None]
\* HTTPAdapter.__init__: no proxy manager yet; the pool settings of a mounted
\* adapter.
HTTPAdapter(connections, maxsize, block) ==
    [proxy_manager |-> <<>>, pool_connections |-> connections, pool_maxsize |-> maxsize,
     pool_block |-> block]
PipeIdle ==
    /\ pc = "idle"
    /\ caller = "none"
    /\ trackings = <<>>
    /\ proxies = [kind |-> "none", all |-> <<>>]
    /\ hours = DefaultHours
    /\ cache_data = default_data
    /\ token = None
    /\ chk = NoChk
    /\ data = <<>>
    /\ reqs = <<>>
    /\ response = [kind |-> "none", msg |-> "none", dat |-> <<>>]
    /\ result = [kind |-> "none", msg |-> "none", map |-> <<>>]
    /\ log = <<>>
    /\ patched = FALSE
    /\ ncalls = 0
    /\ http = [code |-> 0, status |-> "none", message |-> "none"]
    /\ all_trackings_results = <<>>
    /\ di = 0
    /\ dj = 0

\* The threads that run rotate_daemon("Track", ...).
DaemonLoops == {"d1", "d2"}

\* daemon_states as line 642 creates it; no loop has started.
DaemonIdle ==
    /\ daemon_states = FALSE
    /\ dpc = [d \in DaemonLoops |-> "start"]
    /\ dsaw = [d \in DaemonLoops |-> FALSE]
    /\ dheld = [d \in DaemonLoops |-> FALSE]
    /\ dcycles = [d \in DaemonLoops |-> 0]
    /\ derrors = [d \in DaemonLoops |-> 0]

\* No function is called and no daemon loop has started.
SideIdle ==
    /\ call = [fn |-> "none", arg |-> <<>>]
    /\ value = [v |-> <<>>]
    /\ done = FALSE
    /\ adapter = (HTTPAdapter(10, 10, FALSE))
    /\ exe_type = "Track"
    /\ DaemonIdle

-----------------------------------------------------------------------------
(* SpecCache: JsonFileHandler over a cache.json that starts absent, empty, *)
(* cut short, or complete.                                                 *)

InitFiles ==
    {NoFile, FileOf(<<>>), FileOf(json_dump((Doc(None, None, Section, Some("tok0"), strftime(0), Some("<object>"), <<>>, None)))),
     FileOf(json_dump(default_data)), FileOf(json_dump(DocSession(<<>>, 0)))}

InitCache ==
    /\ file \in InitFiles
    /\ tmp = NoFile
    /\ overlay = NoEntry
    /\ clock = 0
    /\ nticks = 0
    /\ HandlerIdle
    /\ PipeIdle
    /\ SideIdle

NextCache ==
    \/ CallRead(MainThread)
    \/ ReadCache(MainThread)
    \/ ReadFile(MainThread)
    \/ InitCheck(MainThread)
    \/ InitOpen(MainThread)
    \/ InitDump(MainThread)
    \/ \E d \in {default_data, DocSession(<<>>, 0), DocFresh(<<"socks5://a:1">>), (Doc(None, None, Section, Some("<object>"), strftime(0), Some("Mozilla/5.0"), <<>>, None)), (Doc(None, None, Section, Some("tok0"), strftime(0), Some("<object>"), <<>>, None))} : CallWrite(MainThread, d)
    \/ WriteOpen(MainThread)
    \/ WriteDump(MainThread)
    \/ WriteReplace(MainThread)
    \/ WriteCache(MainThread)
    \/ Crash
    \/ Tick({1, TTL - 1})

SpecCache == InitCache /\ [][NextCache]_vars

-----------------------------------------------------------------------------
(* SpecWriters: write() called by the two threads of the process at the    *)
(* same time, each with a document of its own.                             *)

NextWriters ==
    \/ CallWrite("t1", DocFresh(<<"socks5://a:1">>))
    \/ CallWrite("t2", DocSession(<<>>, 0))
    \/ \E p \in Threads : WriteOpen(p)
    \/ \E p \in Threads : WriteDump(p)
    \/ \E p \in Threads : WriteReplace(p)
    \/ \E p \in Threads : WriteCache(p)

SpecWriters == InitCache /\ [][NextWriters]_vars

-----------------------------------------------------------------------------
(* SpecStale: read() in a process that writes nothing itself, while        *)
(* another process replaces cache.json.                                    *)

\* write() in another process, lines 131-139: cache.json is replaced by a
\* document holding a session saved at the time of the write; the overlay
\* of this process is not touched.
OtherProcessWrite ==
    /\ file' = FileOf(json_dump(DocSession(<<>>, clock)))
    /\ file' # file
    /\ UNCHANGED <<tmp, overlay, clock, nticks, handlervars, pipevars, callvars, daemonvars>>

NextStale ==
    \/ CallRead(MainThread)
    \/ ReadCache(MainThread)
    \/ ReadFile(MainThread)
    \/ InitCheck(MainThread)
    \/ InitOpen(MainThread)
    \/ InitDump(MainThread)
    \/ OtherProcessWrite
    \/ Tick({1, TTL - 1})

SpecStale == InitCache /\ [][NextStale]_vars

-----------------------------------------------------------------------------
(* The cache store as the pipeline uses it: each call of read_cache_json   *)
(* and write_cache_json taken as one step.                                 *)

\* cache_handler.read(): the document, the file and the overlay afterwards.
read_cache_json(f, ov, now) ==
    IF (ov.present /\ now < ov.expires)
    THEN [raised |-> FALSE, doc |-> ov.doc, file |-> f, overlay |-> ov]
    ELSE IF NonEmpty(f)
    THEN IF Parsable(f.data)
         THEN [raised |-> FALSE, doc |-> json_load(f.data), file |-> f,
               overlay |-> Entry(json_load(f.data), now)]
         ELSE [raised |-> TRUE, doc |-> default_data, file |-> f, overlay |-> ov]
    ELSE [raised |-> FALSE, doc |-> default_data,
          file |-> FileOf(json_dump(default_data)),
          overlay |-> Entry(default_data, now)]

\* cache_handler.write(d): the two files and the overlay afterwards.
write_cache_json(d, f, t, ov, now) ==
    IF DumpFails(d)
    THEN [ok |-> FALSE, file |-> f, tmp |-> FileOf(json_dump(d)), overlay |-> ov]
    ELSE [ok |-> TRUE, file |-> FileOf(json_dump(d)), tmp |-> NoFile,
          overlay |-> Entry(d, now)]

\* A save that writes a document holding the session only.
save_last_event_id_fresh(id, now, f, t, ov) ==
    LET r == read_cache_json(f, ov, now)
        d == [default_data EXCEPT !.id = Some(id), !.exp = strftime(now)]
        w == write_cache_json(d, r.file, t, [r.overlay EXCEPT !.doc = d], now)
    IN  IF r.raised
        THEN [raised |-> TRUE, doc |-> r.doc, file |-> f, tmp |-> t, overlay |-> ov]
        ELSE [raised |-> FALSE, doc |-> d, file |-> w.file, tmp |-> w.tmp,
              overlay |-> w.overlay]

\* A save that stamps the session with the date alone.
save_last_event_id_date_only(id, now, f, t, ov) ==
    LET r == read_cache_json(f, ov, now)
        d == [r.doc EXCEPT !.sect = Section, !.id = Some(id),
                           !.exp = strftime(now - (now % 86400))]
        w == write_cache_json(d, r.file, t, [r.overlay EXCEPT !.doc = d], now)
    IN  IF r.raised
        THEN [raised |-> TRUE, doc |-> r.doc, file |-> f, tmp |-> t, overlay |-> ov]
        ELSE [raised |-> FALSE, doc |-> d, file |-> w.file, tmp |-> w.tmp,
              overlay |-> w.overlay]

\* save_last_event_id(read_cache_json, write_cache_json, id, strftime(now)):
\* the document returned by read() is changed in place, so a live overlay
\* entry changes with it, and is then written.
save_last_event_id(id, now, f, t, ov) ==
    LET r == read_cache_json(f, ov, now)
        d == [r.doc EXCEPT !.sect = Section, !.id = Some(id), !.exp = strftime(now)]
        w == write_cache_json(d, r.file, t, [r.overlay EXCEPT !.doc = d], now)
    IN  IF r.raised
        THEN [raised |-> TRUE, doc |-> r.doc, file |-> f, tmp |-> t, overlay |-> ov]
        ELSE [raised |-> FALSE, doc |-> d, file |-> w.file, tmp |-> w.tmp,
              overlay |-> w.overlay]

-----------------------------------------------------------------------------
(* Strings are sequences of characters.                                    *)

UpperCase == <<"A", "B", "C", "D", "E", "F", "G", "H", "I", "J", "K", "L", "M",
               "N", "O", "P", "Q", "R", "S", "T", "U", "V", "W", "X", "Y", "Z">>
LowerCase == <<"a", "b", "c", "d", "e", "f", "g", "h", "i", "j", "k", "l", "m",
               "n", "o", "p", "q", "r", "s", "t", "u", "v", "w", "x", "y", "z">>
Range(s) == {s[i] : i \in DOMAIN s}
\* [a-zA-Z0-9]
IsAlnum(c) == c \in {"0", "1", "2", "3", "4", "5", "6", "7", "8", "9"} \cup Range(UpperCase) \cup Range(LowerCase)

\* A substitution that removes the first other character only.
remove_non_alphanumeric_once(text) ==
    LET bad == {i \in DOMAIN text : ~IsAlnum(text[i])}
    IN  IF bad = {} THEN text
        ELSE LET k == CHOOSE i \in bad : \A j \in bad : i <= j
             IN  SubSeq(text, 1, k - 1) \o SubSeq(text, k + 1, Len(text))

\* re.sub(r"[^a-zA-Z0-9]", "", text)
remove_non_alphanumeric(text) == SelectSeq(text, IsAlnum)

\* str.casefold, on the characters of the model.
CaseFoldChar(c) ==
    IF c \in Range(UpperCase)
    THEN LowerCase[CHOOSE i \in DOMAIN UpperCase : UpperCase[i] = c]
    ELSE c
casefold(s) == [i \in DOMAIN s |-> CaseFoldChar(s[i])]

(* shipment_variables.courier_cache, country_cache and status_cache are not *)
(* among the sources; the tables below have the shape app.py reads and the  *)
(* entries of the spec's end-to-end example (carrier UPS, country 840,      *)
(* status 2).                                                               *)
courier_cache ==
    << [key |-> 100002, name |-> <<"U", "P", "S">>, country |-> Some(840)],
       [key |-> 100001, name |-> <<"D", "H", "L">>, country |-> Some(276)],
       [key |-> 42, name |-> <<"U", "p", "s">>, country |-> None] >>
country_cache ==
    << [numberKey |-> 840, mnemonic |-> "US", name |-> "United States"],
       [numberKey |-> 276, mnemonic |-> "DE", name |-> "Germany"] >>
status_cache ==
    << [key |-> 0, name |-> "Not found"],
       [key |-> 2, name |-> "In transit"] >>

\* A lookup that also accepts a slug the courier's name only starts with.
map_courier_slug_to_code_prefix(courier_slug) ==
    IF courier_slug = None \/ courier_slug = Some(<<>>) THEN 0
    ELSE LET n == Len(courier_slug[1])
             hits == {i \in DOMAIN courier_cache :
                         /\ Len(courier_cache[i].name) >= n
                         /\ casefold(SubSeq(courier_cache[i].name, 1, n))
                                = casefold(courier_slug[1])}
         IN  IF hits = {} THEN 0
             ELSE courier_cache[CHOOSE i \in hits : \A j \in hits : i <= j].key

\* map_courier_slug_to_code(courier_slug): the key of the first courier whose
\* name equals the slug under casefold, 0 for none and for a falsy slug.
map_courier_slug_to_code(courier_slug) ==
    IF courier_slug = None \/ courier_slug = Some(<<>>) THEN 0
    ELSE LET hits == {i \in DOMAIN courier_cache :
                         casefold(courier_cache[i].name) = casefold(courier_slug[1])}
         IN  IF hits = {} THEN 0
             ELSE courier_cache[CHOOSE i \in hits : \A j \in hits : i <= j].key

\* remap_tracking_data(tracking_data)
remap_tracking_data(tracking_data) ==
    [i \in DOMAIN tracking_data |->
        [num |-> remove_non_alphanumeric(tracking_data[i].num),
         fc |-> map_courier_slug_to_code(tracking_data[i].slug),
         sc |-> 0]]

-----------------------------------------------------------------------------
(* The inputs of the pipeline.                                             *)

\* The items a client submits, repeated to the length of the batch.
ItemPool ==
    << [num |-> <<"1", "Z", "-", "9">>, slug |-> Some(<<"u", "p", "s">>)],
       [num |-> <<"A", "B", " ", "7">>, slug |-> None] >>
Batch(n) == [i \in 1..n |-> ItemPool[((i - 1) % Len(ItemPool)) + 1]]

-----------------------------------------------------------------------------
(* Decoding the backend's answer (tracking(), lines 392-639).  A Python    *)
(* dict is a sequence of [k, v] pairs in insertion order.                  *)

DictHas(m, k) == \E i \in DOMAIN m : m[i].k = k
DictGet(m, k) == m[CHOOSE i \in DOMAIN m : m[i].k = k].v
\* m.setdefault(k, v): a key already there keeps its value.
DictSetDefault(m, k, v) ==
    IF DictHas(m, k) THEN m ELSE Append(m, [k |-> k, v |-> v])
\* m[k] = v
DictSet(m, k, v) ==
    IF DictHas(m, k)
    THEN [i \in DOMAIN m |-> IF m[i].k = k THEN [k |-> k, v |-> v] ELSE m[i]]
    ELSE Append(m, [k |-> k, v |-> v])
\* The placeholder of lines 538-552 and 556-570.
Placeholder(no) ==
    [tracking |-> no, delay |-> None, country1 |-> None, country2 |-> None,
     shorten_status |-> None, transit_time |-> None, courier1 |-> None,
     courier2 |-> None, all_status |-> None, lastest_status |-> None,
     picked_up |-> None, returned |-> None, retry_delay |-> TRUE]

\* Python truthiness of an optional number: None and 0 are falsy.
TruthyNum(o) == o # None /\ o # Some(0)

\* parse_country_info(code): the first country with that _numberKey, else None.
parse_country_info(code) ==
    LET hits == {i \in DOMAIN country_cache : country_cache[i].numberKey = code}
    IN  IF hits = {} THEN None
        ELSE LET c == country_cache[CHOOSE i \in hits : \A j \in hits : i <= j]
             IN  Some([mnemonic |-> c.mnemonic, name |-> c.name, code |-> c.numberKey])

\* parse_courier_info(code): the first courier with that key, else None.
parse_courier_info(code) ==
    LET hits == {i \in DOMAIN courier_cache : courier_cache[i].key = code}
    IN  IF hits = {} THEN None
        ELSE LET c == courier_cache[CHOOSE i \in hits : \A j \in hits : i <= j]
             IN  Some([code |-> c.key,
                       country |-> IF c.country = None THEN None
                                   ELSE parse_country_info(c.country[1]),
                       name |-> c.name,
                       icon |-> code])

\* parse_status_info(code): the first status with that key, else None.
parse_status_info(code) ==
    LET hits == {i \in DOMAIN status_cache : status_cache[i].key = code}
    IN  IF hits = {} THEN None
        ELSE LET s == status_cache[CHOOSE i \in hits : \A j \in hits : i <= j]
             IN  Some([t |-> "status", code |-> s.key, name |-> s.name])

\* {} where a status or an event is expected.
EmptyObject == [t |-> "{}"]

\* An event decoder that moves location2 whatever location1 holds.
ParseEventAlways(ev) ==
    IF ev = None THEN <<>>
    ELSE LET e == ev[1]
             promote == e.d # ""
         IN  << [t |-> "event", time |-> e.a, country |-> e.b,
                 location1 |-> IF promote THEN e.d ELSE e.c,
                 location2 |-> IF promote THEN "" ELSE e.d,
                 status |-> e.z] >>

\* parse_tracking_status, lines 412-432, for one event of the wire list: a
\* falsy event is skipped, else location2 moves to an empty location1.
ParseEvent(ev) ==
    IF ev = None THEN <<>>
    ELSE LET e == ev[1]
             promote == e.d # "" /\ e.c = ""
         IN  << [t |-> "event", time |-> e.a, country |-> e.b,
                 location1 |-> IF promote THEN e.d ELSE e.c,
                 location2 |-> IF promote THEN "" ELSE e.d,
                 status |-> e.z] >>

RECURSIVE parse_tracking_status(_)
parse_tracking_status(tracking_statuses) ==
    IF tracking_statuses = <<>> THEN <<>>
    ELSE ParseEvent(Head(tracking_statuses))
             \o parse_tracking_status(Tail(tracking_statuses))

\* A decoder that takes status code 0 for an absent code.
DecodePayloadZeroAbsent(no, delay, p) ==
    LET lastest == parse_tracking_status(<<p.z0>>)
    IN  [tracking |-> no,
         delay |-> delay,
         country1 |-> IF TruthyNum(p.b) THEN parse_country_info(p.b[1]) ELSE None,
         country2 |-> IF TruthyNum(p.c) THEN parse_country_info(p.c[1]) ELSE None,
         shorten_status |-> IF TruthyNum(p.e) THEN parse_status_info(p.e[1])
                            ELSE Some(EmptyObject),
         transit_time |-> IF p.f[1] < 0 THEN None ELSE p.f,
         courier1 |-> IF TruthyNum(p.w1) THEN parse_courier_info(p.w1[1]) ELSE None,
         courier2 |-> IF TruthyNum(p.w2) THEN parse_courier_info(p.w2[1]) ELSE None,
         all_status |-> Some(parse_tracking_status(p.z1[1])),
         lastest_status |-> IF Len(lastest) = 1 THEN Some(lastest[1])
                            ELSE Some(EmptyObject),
         picked_up |-> Some(p.pickup),
         returned |-> Some(p.return),
         retry_delay |-> FALSE]

\* A decoder that takes a transit time of 0 for an unknown one.
DecodePayloadZeroNull(no, delay, p) ==
    LET lastest == parse_tracking_status(<<p.z0>>)
    IN  [tracking |-> no,
         delay |-> delay,
         country1 |-> IF TruthyNum(p.b) THEN parse_country_info(p.b[1]) ELSE None,
         country2 |-> IF TruthyNum(p.c) THEN parse_country_info(p.c[1]) ELSE None,
         shorten_status |-> IF p.e # None THEN parse_status_info(p.e[1])
                            ELSE Some(EmptyObject),
         transit_time |-> IF p.f[1] <= 0 THEN None ELSE p.f,
         courier1 |-> IF TruthyNum(p.w1) THEN parse_courier_info(p.w1[1]) ELSE None,
         courier2 |-> IF TruthyNum(p.w2) THEN parse_courier_info(p.w2[1]) ELSE None,
         all_status |-> Some(parse_tracking_status(p.z1[1])),
         lastest_status |-> IF Len(lastest) = 1 THEN Some(lastest[1])
                            ELSE Some(EmptyObject),
         picked_up |-> Some(p.pickup),
         returned |-> Some(p.return),
         retry_delay |-> FALSE]

\* Lines 572-632: the result of an entry whose payload is present.
DecodePayload(no, delay, p) ==
    LET lastest == parse_tracking_status(<<p.z0>>)
    IN  [tracking |-> no,
         delay |-> delay,
         country1 |-> IF TruthyNum(p.b) THEN parse_country_info(p.b[1]) ELSE None,
         country2 |-> IF TruthyNum(p.c) THEN parse_country_info(p.c[1]) ELSE None,
         shorten_status |-> IF p.e # None THEN parse_status_info(p.e[1])
                            ELSE Some(EmptyObject),
         transit_time |-> IF p.f[1] < 0 THEN None ELSE p.f,
         courier1 |-> IF TruthyNum(p.w1) THEN parse_courier_info(p.w1[1]) ELSE None,
         courier2 |-> IF TruthyNum(p.w2) THEN parse_courier_info(p.w2[1]) ELSE None,
         all_status |-> Some(parse_tracking_status(p.z1[1])),
         lastest_status |-> IF Len(lastest) = 1 THEN Some(lastest[1])
                            ELSE Some(EmptyObject),
         picked_up |-> Some(p.pickup),
         returned |-> Some(p.return),
         retry_delay |-> FALSE]

\* A delay branch that stores the placeholder under the number of the batch
\* item the inner loop is at.
EmitDelayedPerItem(acc, item, no) == DictSet(acc, item.num, Placeholder(item.num))

\* Lines 538-552, one pass of the inner loop over data["data"]: the
\* placeholder is stored under tracking_number, the number of the response
\* entry, whatever the item.
EmitDelayed(acc, item, no) == DictSet(acc, no, Placeholder(no))

\* Lines 554-555, not tracking_info: the entry has no "track", a null one or
\* an empty one.
NoPayload(e) == e.track = None \/ e.track = Some(EmptyObject)

\* A decoder that starts the results over at an entry without payload.
DecodeEntryReset(acc, e) ==
    IF NoPayload(e) THEN <<[k |-> e.no, v |-> Placeholder(e.no)]>>
    ELSE DictSet(acc, e.no, DecodePayload(e.no, e.delay, e.track[1]))

\* Lines 554-632, an entry that is not delayed: the placeholder when the
\* payload is missing or empty, else the decoded payload.
DecodeEntry(acc, e) ==
    IF NoPayload(e) THEN DictSet(acc, e.no, Placeholder(e.no))
    ELSE DictSet(acc, e.no, DecodePayload(e.no, e.delay, e.track[1]))

\* The entry makes the loop raise.
EntryRaises(e) == e.delay # Some(1) /\ ~NoPayload(e) /\ (e.track[1].f = None \/ e.track[1].z1 = None)

Raised(msg) == [kind |-> "raised", msg |-> msg, map |-> <<>>]
\* raise Exception(f"{msg}: {detail}"), lines 635-639.
RaisedWith(msg, detail) == [kind |-> "raised", msg |-> msg, detail |-> detail, map |-> <<>>]
Returned(m) == [kind |-> "returned", msg |-> "Ok", map |-> m]

-----------------------------------------------------------------------------
(* Answers of the backend.                                                 *)

Event(c, d) == Some([a |-> "2024-01-01 10:00", b |-> "US", c |-> c, d |-> d, z |-> "Departed"])
Payload(b, e, f, w1, z1, z0) ==
    [b |-> b, c |-> None, e |-> e, f |-> f, w1 |-> w1, w2 |-> None, z1 |-> z1,
     z0 |-> z0, pickup |-> FALSE, return |-> FALSE]
EntryDelayed(no) == [no |-> no, delay |-> Some(1), track |-> None]
EntryPresent(no, p) == [no |-> no, delay |-> Some(0), track |-> Some(p)]

JsonAnswer(msg, dat) == [kind |-> "json", msg |-> msg, dat |-> dat]
-----------------------------------------------------------------------------
(* The facade, the pipeline and the expiry check, one call after another.  *)

Http(code, status, message) == [code |-> code, status |-> status, message |-> message]

\* A request as requests.post receives it.  proxies is the keyword argument
\* of that name: neither call of requests.post passes one.
Request(timeout, tok, ua, items) ==
    [url |-> "https://t.17track.net/restapi/track", timeout |-> timeout,
     proxies |-> None, last_event_id |-> tok, user_agent |-> ua, items |-> items]

\* api_package_info, lines 721-748: the request body holds n items, each of
\* them with a "tracking" key or not.
F_Call(sizes, limit) ==
    /\ pc = "idle"
    /\ ncalls < limit
    /\ ncalls' = ncalls + 1
    /\ caller' = "facade"
    /\ \E n \in sizes, complete \in BOOLEAN :
           IF n = 0
           THEN /\ http' = Http(404, "error", "failed to fetch package: missing field(s)")
                /\ pc' = "f_done"
                /\ UNCHANGED trackings
           ELSE IF ~complete
           THEN /\ http' = Http(404, "error", "failed to fetch package: tracking not specified")
                /\ pc' = "f_done"
                /\ UNCHANGED trackings
           ELSE /\ trackings' = Batch(n)
                /\ pc' = "f_proxy"
                /\ UNCHANGED http
    /\ UNCHANGED <<cachevars, handlervars, callvars, daemonvars, proxies, hours, cache_data, token, chk, data,
                   reqs, response, result, log, patched, all_trackings_results, di, dj>>

\* api_package_info, lines 750-757: the proxy list is read from the cache,
\* pick_random_proxy picks one entry (None from an empty list), and tracking()
\* is called with proxies={"all": [random_proxy]}.  An exception of the read
\* is caught at line 774.
F_Proxy ==
    /\ pc = "f_proxy"
    /\ LET r == read_cache_json(file, overlay, clock)
       IN  /\ file' = r.file
           /\ overlay' = r.overlay
           /\ IF r.raised
              THEN /\ http' = Http(500, "error", "failed to fetch packages")
                   /\ pc' = "f_done"
                   /\ UNCHANGED proxies
              ELSE /\ \E random_proxy \in
                            (IF r.doc.proxy = <<>> THEN {None}
                             ELSE {Some(r.doc.proxy[i]) : i \in DOMAIN r.doc.proxy}) :
                          proxies' = ([kind |-> "dict", all |-> (<<random_proxy>>)])
                   /\ pc' = "t_validate"
                   /\ UNCHANGED http
    /\ UNCHANGED <<tmp, clock, nticks, handlervars, callvars, daemonvars, caller, trackings, hours, cache_data,
                   token, chk, data, reqs, response, result, log, patched, ncalls,
                   all_trackings_results, di, dj>>

T_Call(sizes, limit) ==
    /\ pc = "idle"
    /\ ncalls < limit
    /\ ncalls' = ncalls + 1
    /\ caller' = "direct"
    /\ \E n \in sizes : trackings' = Batch(n)
    /\ \E px \in {[kind |-> "none", all |-> <<>>], ([kind |-> "dict", all |-> (<<Some("socks5://a:1,socks5://b:2")>>)])} : proxies' = px
    /\ pc' = "t_validate"
    /\ UNCHANGED <<cachevars, handlervars, callvars, daemonvars, hours, cache_data, token, chk, data, reqs,
                   response, result, log, patched, http,
                   all_trackings_results, di, dj>>

\* check_last_event_id_expiry(read_cache_json, write_cache_json, h) is called
\* by other code of the process.
C_Call(hourset, limit) ==
    /\ pc = "idle"
    /\ ncalls < limit
    /\ ncalls' = ncalls + 1
    /\ caller' = "check"
    /\ \E h \in hourset : hours' = h
    /\ pc' = "chk_read"
    /\ UNCHANGED <<cachevars, handlervars, callvars, daemonvars, trackings, proxies, cache_data, token, chk,
                   data, reqs, response, result, log, patched, http,
                   all_trackings_results, di, dj>>

\* A tracking() that accepts one item more than the limit.
T_ValidateOffByOne ==
    /\ pc = "t_validate"
    /\ IF Len(trackings) = 0 \/ Len(trackings) > BatchLimit + 1
       THEN /\ result' = Raised("invalid number of trackings provided")
            /\ pc' = "t_done"
       ELSE /\ pc' = "t_read"
            /\ UNCHANGED result
    /\ UNCHANGED <<cachevars, handlervars, callvars, daemonvars, caller, trackings, proxies, hours, cache_data,
                   token, chk, data, reqs, response, log, patched, ncalls, http,
                   all_trackings_results, di, dj>>

\* tracking(), lines 367-368.
T_Validate ==
    /\ pc = "t_validate"
    /\ IF Len(trackings) = 0 \/ Len(trackings) > BatchLimit
       THEN /\ result' = Raised("invalid number of trackings provided")
            /\ pc' = "t_done"
       ELSE /\ pc' = "t_read"
            /\ UNCHANGED result
    /\ UNCHANGED <<cachevars, handlervars, callvars, daemonvars, caller, trackings, proxies, hours, cache_data,
                   token, chk, data, reqs, response, log, patched, ncalls, http,
                   all_trackings_results, di, dj>>

\* tracking(), lines 370-373: the session is looked up under the ROOT keys
\* last_event_id and last_event_id_expiry of the document; the expiry check
\* runs, with its default margin, when either is missing or empty.
T_Read ==
    /\ pc = "t_read"
    /\ LET r == read_cache_json(file, overlay, clock)
       IN  /\ file' = r.file
           /\ overlay' = r.overlay
           /\ log' = Append(log, "read")
           /\ IF r.raised
              THEN /\ result' = Raised("JSONDecodeError")
                   /\ pc' = "t_done"
                   /\ UNCHANGED <<cache_data, token>>
              ELSE /\ cache_data' = r.doc
                   /\ token' = r.doc.rid
                   /\ pc' = IF ~Truthy(r.doc.rid) \/ r.doc.rexp = None
                            THEN "chk_read" ELSE "t_headers"
                   /\ UNCHANGED result
    /\ UNCHANGED <<tmp, clock, nticks, handlervars, callvars, daemonvars, caller, trackings, proxies, hours,
                   chk, data, reqs, response, patched, ncalls, http,
                   all_trackings_results, di, dj>>

\* A check whose margin is not added to the timestamp.
ExpiredNoMargin(id, exp, now, h) ==
    \/ ~Truthy(id)
    \/ exp = None
    \/ now >= strptime(exp)

\* A check that still accepts the token at the very end of the margin.
ExpiredStrict(id, exp, now, h) ==
    \/ ~Truthy(id)
    \/ exp = None
    \/ now > strptime(exp) + h * SecondsPerHour

\* The token is invalid: lines 319-327.
Expired(id, exp, now, h) ==
    \/ ~Truthy(id)
    \/ exp = None
    \/ now >= strptime(exp) + h * SecondsPerHour

\* check_last_event_id_expiry, lines 317-327 and 343-344: the id and the
\* timestamp are read by two calls of read_cache_json; a valid token is
\* returned as stored.  A document without TRACKING raises AttributeError.
Chk_Read ==
    /\ pc = "chk_read"
    /\ LET r1 == read_cache_json(file, overlay, clock)
           r2 == read_cache_json(r1.file, r1.overlay, clock)
       IN  /\ file' = r2.file
           /\ overlay' = r2.overlay
           /\ log' = log \o <<"read", "read">>
           /\ IF r1.raised \/ r2.raised
              THEN /\ result' = Raised("JSONDecodeError")
                   /\ pc' = "t_done"
                   /\ UNCHANGED <<chk, token>>
              ELSE IF r1.doc.sect = None \/ r2.doc.sect = None
              THEN /\ result' = Raised("AttributeError")
                   /\ pc' = "t_done"
                   /\ UNCHANGED <<chk, token>>
              ELSE LET bad == Expired(r1.doc.id, r2.doc.exp, clock, hours)
                   IN  /\ chk' = [id |-> r1.doc.id, exp |-> r2.doc.exp, now |-> clock,
                                  expired |-> bad, captures |-> 0, wrote |-> FALSE,
                                  ret |-> IF bad THEN None ELSE r1.doc.id]
                       /\ token' = IF bad THEN token ELSE r1.doc.id
                       /\ pc' = IF bad THEN "chk_capture" ELSE (IF caller = "check" THEN "t_done" ELSE "t_headers")
                       /\ result' = IF ~bad /\ caller = "check"
                                    THEN Returned(<<>>) ELSE result
    /\ UNCHANGED <<tmp, clock, nticks, handlervars, callvars, daemonvars, caller, trackings, proxies, hours,
                   cache_data, data, reqs, response, patched, ncalls, http,
                   all_trackings_results, di, dj>>

\* A loop that gives up after its last empty attempt and goes on to save.
Chk_CaptureGivesUp ==
    /\ pc = "chk_capture"
    /\ log' = Append(log, "capture")
    /\ chk' = [chk EXCEPT !.captures = chk.captures + 1]
    /\ \/ \E r \in {None, Some("tokA")} :
              /\ token' = r
              /\ pc' = IF Truthy(r) \/ chk.captures >= MaxCapture
                       THEN "chk_save" ELSE "chk_capture"
              /\ UNCHANGED result
       \/ /\ result' = Raised("playwright Error")
          /\ pc' = "t_done"
          /\ UNCHANGED token
    /\ UNCHANGED <<cachevars, handlervars, callvars, daemonvars, caller, trackings, proxies, hours, cache_data,
                   data, reqs, response, patched, ncalls, http,
                   all_trackings_results, di, dj>>

\* check_last_event_id_expiry, lines 330-332: one pass of the loop.  The
\* browser may also fail (page.goto times out), which capture does not catch.
Chk_Capture ==
    /\ pc = "chk_capture"
    /\ log' = Append(log, "capture")
    /\ chk' = [chk EXCEPT !.captures = chk.captures + 1]
    /\ \/ \E r \in {None, Some("tokA")} :
              /\ Truthy(r) \/ chk.captures < MaxCapture
              /\ token' = r
              /\ pc' = IF Truthy(r) THEN "chk_save" ELSE "chk_capture"
              /\ UNCHANGED result
       \/ /\ result' = Raised("playwright Error")
          /\ pc' = "t_done"
          /\ UNCHANGED token
    /\ UNCHANGED <<cachevars, handlervars, callvars, daemonvars, caller, trackings, proxies, hours, cache_data,
                   data, reqs, response, patched, ncalls, http,
                   all_trackings_results, di, dj>>

\* check_last_event_id_expiry, lines 333-342: the new token is saved with the
\* time of the save and returned.
Chk_Save ==
    /\ pc = "chk_save"
    /\ LET s == save_last_event_id(token[1], clock, file, tmp, overlay)
       IN  /\ file' = s.file
           /\ tmp' = s.tmp
           /\ overlay' = s.overlay
           /\ IF s.raised
              THEN /\ log' = Append(log, "read")
                   /\ result' = Raised("JSONDecodeError")
                   /\ pc' = "t_done"
                   /\ UNCHANGED chk
              ELSE /\ log' = log \o <<"read", "write">>
                   /\ chk' = [chk EXCEPT !.wrote = TRUE, !.ret = token]
                   /\ pc' = (IF caller = "check" THEN "t_done" ELSE "t_headers")
                   /\ result' = IF caller = "check" THEN Returned(<<>>) ELSE result
    /\ UNCHANGED <<clock, nticks, handlervars, callvars, daemonvars, caller, trackings, proxies, hours,
                   cache_data, token, data, reqs, response, patched, ncalls, http,
                   all_trackings_results, di, dj>>

\* tracking(), lines 374-378: the headers and the body.  cache_data is the
\* document read at line 370; a missing TRACKING or User_Agent is a KeyError.
T_Headers ==
    /\ pc = "t_headers"
    /\ IF cache_data.sect = None \/ cache_data.ua = None
       THEN /\ result' = Raised("KeyError")
            /\ pc' = "t_done"
            /\ UNCHANGED data
       ELSE /\ data' = remap_tracking_data(trackings)
            /\ pc' = "t_send"
            /\ UNCHANGED result
    /\ UNCHANGED <<cachevars, handlervars, callvars, daemonvars, caller, trackings, proxies, hours, cache_data,
                   token, chk, reqs, response, log, patched, ncalls, http,
                   all_trackings_results, di, dj>>

\* patch_proxy_connection(), lines 34-36: what HTTPAdapter.get_connection is
\* after it, as the value of patched.
patch_proxy_connection == TRUE

\* What the backend may answer to a batch.
Answers(items) ==
    {[kind |-> "exception", msg |-> "none", dat |-> <<>>], JsonAnswer("numNon", <<>>), JsonAnswer("Error", <<>>),
     JsonAnswer("Ok", <<>>),
     JsonAnswer("Ok", <<EntryDelayed(items[1].num)>>),
     JsonAnswer("Ok", <<EntryDelayed(items[Len(items)].num)>>),
     JsonAnswer("Ok", [i \in DOMAIN items |->
                          IF i = 1 THEN [no |-> items[i].num, delay |-> Some(0), track |-> None]
                          ELSE IF i = Len(items) THEN [no |-> items[i].num, delay |-> None, track |-> Some(EmptyObject)]
                          ELSE EntryPresent(items[i].num, (Payload(Some(840), Some(2), Some(3), Some(42), Some(<<>>), Event("", "Louisville"))))]),
     JsonAnswer("Ok", [i \in DOMAIN items |->
                          IF i = 1 THEN EntryDelayed(items[i].num)
                          ELSE EntryPresent(items[i].num, (Payload(Some(840), Some(2), Some(3), Some(42), Some(<<>>), Event("", "Louisville"))))]),
     JsonAnswer("Ok", [i \in DOMAIN items |-> EntryPresent(items[i].num, (Payload(Some(840), Some(2), Some(3), Some(42), Some(<<>>), Event("", "Louisville"))))])}

\* tracking(), lines 379-392: a truthy proxies patches the adapter and posts
\* with timeout=10, else the request is posted without a timeout.
T_Send ==
    /\ pc = "t_send"
    /\ log' = Append(log, "post")
    /\ patched' = IF proxies.kind = "dict" THEN patch_proxy_connection ELSE patched
    /\ reqs' = Append(reqs, Request(IF (proxies.kind = "dict") THEN Some(PostTimeout) ELSE None,
                                    token, cache_data.ua, data))
    /\ \E a \in Answers(data) :
           /\ response' = a
           /\ IF a.kind = "exception"
              THEN /\ result' = Raised("RequestException")
                   /\ pc' = "t_done"
              ELSE /\ pc' = "t_decode"
                   /\ UNCHANGED result
    /\ UNCHANGED <<cachevars, handlervars, callvars, daemonvars, caller, trackings, proxies, hours, cache_data,
                   token, chk, data, ncalls, http,
                   all_trackings_results, di, dj>>

\* A tracking() that reports every status other than Ok as the generic error.
T_DecodeGeneric ==
    /\ pc = "t_decode"
    /\ IF response.msg = "Ok"
       THEN /\ pc' = "d_loop"
            /\ all_trackings_results' = <<>>
            /\ di' = 1
            /\ UNCHANGED result
       ELSE /\ result' = RaisedWith("error retrieving tracking information", response.msg)
            /\ pc' = "t_done"
            /\ UNCHANGED <<all_trackings_results, di>>
    /\ UNCHANGED <<cachevars, handlervars, callvars, daemonvars, caller, trackings, proxies, hours, cache_data,
                   token, chk, data, reqs, response, log, patched, ncalls, http, dj>>

\* tracking(), lines 392-394 and 634-639: the top-level status.
T_Decode ==
    /\ pc = "t_decode"
    /\ IF response.msg = "Ok"
       THEN /\ pc' = "d_loop"
            /\ all_trackings_results' = <<>>
            /\ di' = 1
            /\ UNCHANGED result
       ELSE /\ result' = IF response.msg = "numNon"
                         THEN RaisedWith("invalid tracking number provided", response.msg)
                         ELSE RaisedWith("error retrieving tracking information",
                                         response.msg)
            /\ pc' = "t_done"
            /\ UNCHANGED <<all_trackings_results, di>>
    /\ UNCHANGED <<cachevars, handlervars, callvars, daemonvars, caller, trackings, proxies, hours, cache_data,
                   token, chk, data, reqs, response, log, patched, ncalls, http, dj>>

\* tracking(), lines 533-536, 553-633: one pass of the loop over
\* response_data["dat"], and the return after the last.
D_Entry ==
    /\ pc = "d_loop"
    /\ IF di > Len(response.dat)
       THEN /\ result' = Returned(all_trackings_results)
            /\ pc' = "t_done"
            /\ UNCHANGED <<all_trackings_results, di, dj>>
       ELSE LET e == response.dat[di]
            IN  IF e.delay = Some(1)
                THEN /\ pc' = "d_delay"
                     /\ dj' = 1
                     /\ UNCHANGED <<all_trackings_results, di, result>>
                ELSE IF EntryRaises(e)
                THEN /\ result' = Raised("TypeError")
                     /\ pc' = "t_done"
                     /\ UNCHANGED <<all_trackings_results, di, dj>>
                ELSE /\ all_trackings_results' = DecodeEntry(all_trackings_results, e)
                     /\ di' = di + 1
                     /\ UNCHANGED <<pc, dj, result>>
    /\ UNCHANGED <<cachevars, handlervars, callvars, daemonvars, caller, trackings, proxies, hours, cache_data,
                   token, chk, data, reqs, response, log, patched, ncalls, http>>

\* tracking(), lines 537-552: one pass of the inner loop over data["data"].
D_Delay ==
    /\ pc = "d_delay"
    /\ IF dj > Len(data)
       THEN /\ pc' = "d_loop"
            /\ di' = di + 1
            /\ UNCHANGED <<all_trackings_results, dj>>
       ELSE /\ all_trackings_results' =
                   EmitDelayed(all_trackings_results, data[dj], response.dat[di].no)
            /\ dj' = dj + 1
            /\ UNCHANGED <<pc, di>>
    /\ UNCHANGED <<cachevars, handlervars, callvars, daemonvars, caller, trackings, proxies, hours, cache_data,
                   token, chk, data, reqs, response, result, log, patched, ncalls, http>>

\* A handler that answers an exception of tracking() like an empty result.
F_RespondNotFound ==
    /\ pc = "t_done"
    /\ caller = "facade"
    /\ http' = IF result.map = <<>>
               THEN Http(404, "error", "failed to fetch package: tracking information not found")
               ELSE Http(200, "success", "successfully fetched packages")
    /\ pc' = "f_done"
    /\ UNCHANGED <<cachevars, handlervars, callvars, daemonvars, caller, trackings, proxies, hours, cache_data,
                   token, chk, data, reqs, response, result, log, patched, ncalls,
                   all_trackings_results, di, dj>>

\* api_package_info, lines 758-775: the outcome of tracking() as a response.
F_Respond ==
    /\ pc = "t_done"
    /\ caller = "facade"
    /\ http' = IF result.kind = "raised"
               THEN Http(500, "error", "failed to fetch packages")
               ELSE IF result.map = <<>>
               THEN Http(404, "error", "failed to fetch package: tracking information not found")
               ELSE Http(200, "success", "successfully fetched packages")
    /\ pc' = "f_done"
    /\ UNCHANGED <<cachevars, handlervars, callvars, daemonvars, caller, trackings, proxies, hours, cache_data,
                   token, chk, data, reqs, response, result, log, patched, ncalls,
                   all_trackings_results, di, dj>>

\* The call is over; its locals are gone.
Return ==
    /\ \/ pc = "f_done"
       \/ pc = "t_done" /\ caller # "facade"
    /\ pc' = "idle"
    /\ caller' = "none"
    /\ trackings' = <<>>
    /\ proxies' = [kind |-> "none", all |-> <<>>]
    /\ hours' = DefaultHours
    /\ cache_data' = default_data
    /\ token' = None
    /\ chk' = NoChk
    /\ data' = <<>>
    /\ reqs' = <<>>
    /\ response' = [kind |-> "none", msg |-> "none", dat |-> <<>>]
    /\ result' = [kind |-> "none", msg |-> "none", map |-> <<>>]
    /\ log' = <<>>
    /\ http' = [code |-> 0, status |-> "none", message |-> "none"]
    /\ all_trackings_results' = <<>>
    /\ di' = 0
    /\ dj' = 0
    /\ UNCHANGED <<cachevars, handlervars, callvars, daemonvars, patched, ncalls>>

-----------------------------------------------------------------------------
(* Spec: calls of the facade, of tracking() and of the expiry check over a *)
(* provisioned cache.json.                                                 *)

MaxHours == 2       \* the largest margin the expiry check is called with
MaxItems == 2       \* the largest batch of Spec

\* cache.json as the operator left it.  The last document also holds a
\* session under the root keys, where tracking() looks for it.
InitDocs ==
    {DocFresh(<<>>),
     DocSession(<<"socks5://a:1", "socks5://a:1,socks5://b:2">>, 0),
     Doc(Some("tokR"), strftime(0), Section, None, None, Some("Mozilla/5.0"), <<>>, None)}

Init ==
    /\ file \in {FileOf(json_dump(d)) : d \in InitDocs}
    /\ tmp = NoFile
    /\ overlay = NoEntry
    /\ clock = 0
    /\ nticks = 0
    /\ HandlerIdle
    /\ PipeIdle
    /\ SideIdle

\* Time passes between the calls and while the browser runs; at the
\* resolution of the clock's steps the other statements take no time.
Elapse ==
    /\ pc \in {"idle", "chk_capture"}
    /\ Tick({SecondsPerHour \div 2, SecondsPerHour})

Next ==
    \/ F_Call(0..MaxItems, MaxCalls)
    \/ F_Proxy
    \/ T_Call(0..MaxItems, MaxCalls)
    \/ C_Call(1..MaxHours, MaxCalls)
    \/ T_Validate
    \/ T_Read
    \/ Chk_Read
    \/ Chk_Capture
    \/ Chk_Save
    \/ T_Headers
    \/ T_Send
    \/ T_Decode
    \/ D_Entry
    \/ D_Delay
    \/ F_Respond
    \/ Return
    \/ Elapse

Spec == Init /\ [][Next]_vars

-----------------------------------------------------------------------------
(* SpecRace: check_last_event_id_expiry with its two reads of line 317 as  *)
(* two steps, while another thread of the process saves a session.         *)

R_Call ==
    /\ pc = "idle"
    /\ ncalls < MaxCalls
    /\ ncalls' = ncalls + 1
    /\ caller' = "check"
    /\ \E h \in 1..MaxHours : hours' = h
    /\ pc' = "chk_id"
    /\ UNCHANGED <<cachevars, handlervars, callvars, daemonvars, trackings, proxies, cache_data, token, chk,
                   data, reqs, response, result, log, patched, http,
                   all_trackings_results, di, dj>>

\* Line 317, left of the comma: read_cache_json().get("TRACKING").get("last_event_id").
R_ReadId ==
    /\ pc = "chk_id"
    /\ LET r == read_cache_json(file, overlay, clock)
       IN  /\ file' = r.file
           /\ overlay' = r.overlay
           /\ log' = Append(log, "read")
           /\ IF r.raised \/ r.doc.sect = None
              THEN /\ result' = Raised(IF r.raised THEN "JSONDecodeError" ELSE "AttributeError")
                   /\ pc' = "t_done"
                   /\ UNCHANGED chk
              ELSE /\ chk' = [NoChk EXCEPT !.id = r.doc.id]
                   /\ pc' = "chk_exp"
                   /\ UNCHANGED result
    /\ UNCHANGED <<tmp, clock, nticks, handlervars, callvars, daemonvars, caller, trackings, proxies, hours,
                   cache_data, token, data, reqs, response, patched, ncalls, http,
                   all_trackings_results, di, dj>>

\* A check that takes the id, too, from the document of its second read.
R_ReadExpOneDocument ==
    /\ pc = "chk_exp"
    /\ LET r == read_cache_json(file, overlay, clock)
       IN  /\ file' = r.file
           /\ overlay' = r.overlay
           /\ log' = Append(log, "read")
           /\ IF r.raised \/ r.doc.sect = None
              THEN /\ result' = Raised(IF r.raised THEN "JSONDecodeError" ELSE "AttributeError")
                   /\ pc' = "t_done"
                   /\ UNCHANGED <<chk, token>>
              ELSE LET bad == Expired(r.doc.id, r.doc.exp, clock, hours)
                   IN  /\ chk' = [chk EXCEPT !.id = r.doc.id, !.exp = r.doc.exp, !.now = clock,
                                             !.expired = bad,
                                             !.ret = IF bad THEN None ELSE r.doc.id]
                       /\ token' = IF bad THEN token ELSE r.doc.id
                       /\ pc' = IF bad THEN "chk_capture" ELSE "t_done"
                       /\ result' = IF bad THEN result ELSE Returned(<<>>)
    /\ UNCHANGED <<tmp, clock, nticks, handlervars, callvars, daemonvars, caller, trackings, proxies, hours,
                   cache_data, data, reqs, response, patched, ncalls, http,
                   all_trackings_results, di, dj>>

\* Line 317, right of the comma, and lines 319-327, 343-344: the expiry is
\* read by a second read_cache_json(), and the id read before is judged by it.
R_ReadExp ==
    /\ pc = "chk_exp"
    /\ LET r == read_cache_json(file, overlay, clock)
       IN  /\ file' = r.file
           /\ overlay' = r.overlay
           /\ log' = Append(log, "read")
           /\ IF r.raised \/ r.doc.sect = None
              THEN /\ result' = Raised(IF r.raised THEN "JSONDecodeError" ELSE "AttributeError")
                   /\ pc' = "t_done"
                   /\ UNCHANGED <<chk, token>>
              ELSE LET bad == Expired(chk.id, r.doc.exp, clock, hours)
                   IN  /\ chk' = [chk EXCEPT !.exp = r.doc.exp, !.now = clock,
                                             !.expired = bad,
                                             !.ret = IF bad THEN None ELSE chk.id]
                       /\ token' = IF bad THEN token ELSE chk.id
                       /\ pc' = IF bad THEN "chk_capture" ELSE "t_done"
                       /\ result' = IF bad THEN result ELSE Returned(<<>>)
    /\ UNCHANGED <<tmp, clock, nticks, handlervars, callvars, daemonvars, caller, trackings, proxies, hours,
                   cache_data, data, reqs, response, patched, ncalls, http,
                   all_trackings_results, di, dj>>

\* Lines 333-341 in another thread: its own check found the stored session
\* absent or expired, captured a token and saves it now.
R_Save ==
    /\ LET doc == read_cache_json(file, overlay, clock).doc
           s == save_last_event_id("tokB", clock, file, tmp, overlay)
       IN  /\ doc.sect # None
           /\ Expired(doc.id, doc.exp, clock, DefaultHours) = TRUE
           /\ ~s.raised
           /\ file' = s.file
           /\ tmp' = s.tmp
           /\ overlay' = s.overlay
    /\ UNCHANGED <<clock, nticks, handlervars, pipevars, callvars, daemonvars>>

NextRace ==
    \/ R_Call
    \/ R_ReadId
    \/ R_ReadExp
    \/ Chk_Capture
    \/ Chk_Save
    \/ R_Save
    \/ Return
    \/ Elapse

SpecRace == Init /\ [][NextRace]_vars

-----------------------------------------------------------------------------
(* SpecBatch: one call of the facade or of tracking() with a batch of any  *)
(* size from 0 to beyond the limit.                                        *)

InitBatch ==
    /\ file \in {FileOf(json_dump(d)) :
                     d \in {DocFresh(<<>>), DocSession(<<"socks5://a:1", "socks5://a:1,socks5://b:2">>, 0)}}
    /\ tmp = NoFile
    /\ overlay = NoEntry
    /\ clock = 0
    /\ nticks = 0
    /\ HandlerIdle
    /\ PipeIdle
    /\ SideIdle

NextBatch ==
    \/ F_Call((0..(BatchLimit + MaxOver)), 1)
    \/ F_Proxy
    \/ T_Call((0..(BatchLimit + MaxOver)), 1)
    \/ T_Validate
    \/ T_Read
    \/ Chk_Read
    \/ Chk_Capture
    \/ Chk_Save
    \/ T_Headers
    \/ T_Send
    \/ T_Decode
    \/ D_Entry
    \/ D_Delay
    \/ F_Respond
    \/ Return

SpecBatch == InitBatch /\ [][NextBatch]_vars

-----------------------------------------------------------------------------
(* SpecCall: one call of a function of app.py on an argument drawn from a  *)
(* bounded set.                                                            *)

MaxSlug == 3        \* the longest courier slug

\* The strings over chars of at most n characters.
StringsUpTo(chars, n) == UNION {[1..k -> chars] : k \in 0..n}

Call_map_courier_slug_to_code ==
    /\ ~done
    /\ call.fn = "map_courier_slug_to_code"
    /\ value' = [v |-> map_courier_slug_to_code(call.arg)]
    /\ done' = TRUE
    /\ UNCHANGED <<cachevars, handlervars, pipevars, call, adapter, daemonvars>>

MaxTransit == 2     \* the largest transit time, and the most negative one

\* The payloads of the first entry: every code absent, 0, known or unknown.
Payloads ==
    {Payload(b, e, Some(f), w1, Some(<<>>), None) :
        b \in {None, Some(0), Some(840), Some(999)},
        e \in {None, Some(0), Some(2), Some(7)},
        f \in (0 - MaxTransit)..MaxTransit,
        w1 \in {None, Some(0), Some(100001), Some(5)}}
\* The payloads of the second entry, with the codes in c and w2 as well.
PayloadsOther ==
    {[Payload(b, e, Some(1), w1, Some(<<>>), None) EXCEPT !.c = c, !.w2 = c] :
        b \in {None, Some(840)}, e \in {None, Some(0), Some(2)},
        w1 \in {None, Some(100001)}, c \in {None, Some(276)}}

\* tracking(), lines 572-632, on two entries of one response.
Call_decode ==
    /\ ~done
    /\ call.fn = "decode"
    /\ value' = [v |-> << DecodePayload(call.arg[1].no, call.arg[1].delay,
                                       call.arg[1].track[1]),
                          DecodePayload(call.arg[2].no, call.arg[2].delay,
                                       call.arg[2].track[1]) >>]
    /\ done' = TRUE
    /\ UNCHANGED <<cachevars, handlervars, pipevars, call, adapter, daemonvars>>

(* The proxy chain (lines 38-52 and 85-102), on strings of characters.     *)

\* url.startswith(prefix)
StartsWith(url, prefix) ==
    Len(url) >= Len(prefix) /\ SubSeq(url, 1, Len(prefix)) = prefix

\* url.split(",")
RECURSIVE split(_)
split(url) ==
    LET commas == {i \in DOMAIN url : url[i] = ","}
    IN  IF commas = {} THEN <<url>>
        ELSE LET k == CHOOSE i \in commas : \A j \in commas : i <= j
             IN  <<SubSeq(url, 1, k - 1)>> \o split(SubSeq(url, k + 1, Len(url)))

\* str.strip
strip(t) ==
    LET ink == {i \in DOMAIN t : t[i] # " "}
    IN  IF ink = {} THEN <<>>
        ELSE SubSeq(t, CHOOSE i \in ink : \A j \in ink : i <= j,
                       CHOOSE i \in ink : \A j \in ink : i >= j)

\* proxy_from_url(url): the hop Proxy.from_url builds, as the url and the
\* rdns argument it is given; socks4h and socks5h become socks4 and socks5
\* with rdns=True.
proxy_from_url(url) ==
    IF StartsWith(url, (<<"s", "o", "c", "k", "s", "4">>) \o <<"h">>) \/ StartsWith(url, (<<"s", "o", "c", "k", "s", "5">>) \o <<"h">>)
    THEN [url |-> SubSeq(url, 1, Len((<<"s", "o", "c", "k", "s", "4">>))) \o SubSeq(url, Len((<<"s", "o", "c", "k", "s", "4">>)) + 2, Len(url)),
          rdns |-> Some(TRUE)]
    ELSE [url |-> url, rdns |-> None]

NonEmptyString(t) == t # <<>>

\* A parser that builds the chain from the last segment to the first.
parse_proxychain_url_reversed(url) ==
    LET segments == split(url)
        proxy == SelectSeq([i \in DOMAIN segments |-> strip(segments[i])], NonEmptyString)
    IN  [i \in DOMAIN proxy |-> proxy_from_url(proxy[Len(proxy) + 1 - i])]

\* parse_proxychain_url(url): the hops of ProxyChain, in order.
parse_proxychain_url(url) ==
    LET segments == split(url)
        proxy == SelectSeq([i \in DOMAIN segments |-> strip(segments[i])], NonEmptyString)
    IN  [i \in DOMAIN proxy |-> proxy_from_url(proxy[i])]

\* requests.utils.select_proxy(url, proxies) for proxies = {"all": proxy} or
\* an empty dict.
select_proxy(url, px) == px.all

\* python_socks' Proxy.from_url(url), lines 46-47: a url that does not name
\* a scheme it knows raises ValueError.
Malformed(url) ==
    \A scheme \in {<<"s", "o", "c", "k", "s", "4">>, <<"s", "o", "c", "k", "s", "5">>,
                    <<"h", "t", "t", "p">>} :
        ~StartsWith(url, scheme \o <<":", "/", "/">>)

\* A constructor that skips a segment it cannot parse.
ProxyChainManagerLenient(proxy_url, num_pools, maxsize, block, serial) ==
    LET proxy == parse_proxychain_url(proxy_url)
        WellFormed(h) == ~Malformed(h.url)
    IN  [raised |-> FALSE,
         manager |-> Some([proxychain |-> SelectSeq(proxy, WellFormed), num_pools |-> num_pools,
                           maxsize |-> maxsize, block |-> block, serial |-> serial])]

\* ProxyChainManager(proxy_url, num_pools, maxsize=, block=), lines 79-83:
\* the chain is parsed first, and so the constructor raises on a segment
\* Proxy.from_url rejects; serial tells the objects apart.
ProxyChainManager(proxy_url, num_pools, maxsize, block, serial) ==
    LET proxy == parse_proxychain_url(proxy_url)
    IN  IF \E i \in DOMAIN proxy : Malformed(proxy[i].url)
        THEN [raised |-> TRUE, manager |-> None]
        ELSE [raised |-> FALSE,
              manager |-> Some([proxychain |-> proxy, num_pools |-> num_pools,
                                maxsize |-> maxsize, block |-> block, serial |-> serial])]

\* A patch that builds a manager for every request.
patched_get_connection_unmemoized(self, url, px, serial) ==
    LET proxy == select_proxy(url, px)
        is_proxychain == proxy # None /\ proxy # Some(<<>>) /\ "," \in Range(proxy[1])
    IN  IF ~is_proxychain
        THEN [via |-> "real_get_connection", args |-> <<url, px>>, raised |-> FALSE,
              created |-> FALSE, proxy_manager |-> self.proxy_manager, chain |-> None,
              manager |-> None]
        ELSE LET made == ProxyChainManager(proxy[1], self.pool_connections,
                                           self.pool_maxsize, self.pool_block, serial)
             IN  IF made.raised
                 THEN [via |-> "ProxyChainManager", args |-> <<url>>, raised |-> TRUE,
                       created |-> FALSE, proxy_manager |-> self.proxy_manager,
                       chain |-> None, manager |-> None]
                 ELSE [via |-> "ProxyChainManager", args |-> <<url>>, raised |-> FALSE,
                       created |-> TRUE,
                       proxy_manager |-> DictSet(self.proxy_manager, proxy[1], made.manager[1]),
                       chain |-> Some(made.manager[1].proxychain), manager |-> made.manager]

\* patched_get_connection(self, url, proxies): what it returns the
\* connection of, whether it raised, whether it built a manager, and
\* self.proxy_manager after.  serial is the number of the next object.
patched_get_connection(self, url, px, serial) ==
    LET proxy == select_proxy(url, px)
        is_proxychain == proxy # None /\ proxy # Some(<<>>) /\ "," \in Range(proxy[1])
    IN  IF ~is_proxychain
        THEN [via |-> "real_get_connection", args |-> <<url, px>>, raised |-> FALSE,
              created |-> FALSE, proxy_manager |-> self.proxy_manager, chain |-> None,
              manager |-> None]
        ELSE IF DictHas(self.proxy_manager, proxy[1])
        THEN LET manager == DictGet(self.proxy_manager, proxy[1])
             IN  [via |-> "ProxyChainManager", args |-> <<url>>, raised |-> FALSE,
                  created |-> FALSE, proxy_manager |-> self.proxy_manager,
                  chain |-> Some(manager.proxychain), manager |-> Some(manager)]
        ELSE LET made == ProxyChainManager(proxy[1], self.pool_connections,
                                           self.pool_maxsize, self.pool_block, serial)
             IN  IF made.raised
                 THEN [via |-> "ProxyChainManager", args |-> <<url>>, raised |-> TRUE,
                       created |-> FALSE, proxy_manager |-> self.proxy_manager,
                       chain |-> None, manager |-> None]
                 ELSE [via |-> "ProxyChainManager", args |-> <<url>>, raised |-> FALSE,
                       created |-> TRUE,
                       proxy_manager |-> DictSet(self.proxy_manager, proxy[1], made.manager[1]),
                       chain |-> Some(made.manager[1].proxychain), manager |-> made.manager]

MaxHops == 3        \* the segments of the longest proxy string

HopA == <<"s", "o", "c", "k", "s", "5", ":", "/", "/", "a", ":", "1">>
HopB == <<"s", "o", "c", "k", "s", "5", ":", "/", "/", "b", ":", "2">>
HopC == <<"s", "o", "c", "k", "s", "5", "h", ":", "/", "/", "c", ":", "3">>
SegmentText(g) == IF g.padded THEN <<" ">> \o g.hop \o <<" ">> ELSE g.hop
\* ",".join of the segments.
RECURSIVE JoinSegments(_)
JoinSegments(parts) ==
    IF Len(parts) = 1 THEN SegmentText(parts[1])
    ELSE SegmentText(parts[1]) \o <<",">> \o JoinSegments(Tail(parts))

\* The proxies argument of get_connection: no proxy, or a string of 1 to
\* MaxHops segments; parts remembers the segments it was made of.
ProxyArgs ==
    {[parts |-> <<>>, proxies |-> [all |-> None]]}
    \cup {[parts |-> parts, proxies |-> [all |-> Some(JoinSegments(parts))]] :
             parts \in UNION {[1..k -> {[hop |-> h, padded |-> b] : h \in {<<>>, HopA, HopB, HopC}, b \in BOOLEAN}] : k \in 1..MaxHops}}

Call_patched_get_connection ==
    /\ ~done
    /\ call.fn = "patched_get_connection"
    /\ value' = [v |-> patched_get_connection(adapter, "https://t.17track.net/restapi/track",
                                              call.arg.proxies, 1)]
    /\ done' = TRUE
    /\ UNCHANGED <<cachevars, handlervars, pipevars, call, adapter, daemonvars>>

MaxEvents == 3      \* the longest wire list of events
MaxText == 4        \* the longest tracking number

\* parse_tracking_status(tracking_statuses)
Call_parse_tracking_status ==
    /\ ~done
    /\ call.fn = "parse_tracking_status"
    /\ value' = [v |-> parse_tracking_status(call.arg)]
    /\ done' = TRUE
    /\ UNCHANGED <<cachevars, handlervars, pipevars, call, adapter, daemonvars>>

\* remove_non_alphanumeric(text), and remove_non_alphanumeric of its result.
Call_remove_non_alphanumeric ==
    /\ ~done
    /\ call.fn = "remove_non_alphanumeric"
    /\ value' = [v |-> remove_non_alphanumeric(call.arg),
                 again |-> remove_non_alphanumeric(remove_non_alphanumeric(call.arg))]
    /\ done' = TRUE
    /\ UNCHANGED <<cachevars, handlervars, pipevars, call, adapter, daemonvars>>

InitCall ==
    /\ file = FileOf(json_dump(default_data))
    /\ tmp = NoFile
    /\ overlay = NoEntry
    /\ clock = 0
    /\ nticks = 0
    /\ HandlerIdle
    /\ PipeIdle
    /\ value = [v |-> <<>>]
    /\ done = FALSE
    /\ adapter = (HTTPAdapter(10, 10, FALSE))
    /\ exe_type = "Track"
    /\ DaemonIdle
    /\ \/ call \in {[fn |-> "map_courier_slug_to_code", arg |-> a] : a \in ({None} \cup {Some(t) : t \in StringsUpTo({"u", "U", "p", "S", "x"}, MaxSlug)})}
       \/ call \in {[fn |-> "decode",
                      arg |-> <<EntryPresent(<<"1", "Z", "9">>, p),
                                EntryPresent(<<"A", "B", "7">>, q)>>] :
                        p \in Payloads, q \in PayloadsOther}
       \/ call \in {[fn |-> "parse_tracking_status", arg |-> a] :
                        a \in StringsUpTo(({None} \cup {Event(c, d) : c \in {"", "Hub"}, d \in {"", "Louisville"}}), MaxEvents)}
       \/ call \in {[fn |-> "patched_get_connection", arg |-> a] : a \in ProxyArgs}
       \/ call \in {[fn |-> "remove_non_alphanumeric", arg |-> a] :
                        a \in StringsUpTo({"a", "Z", "7", "-", " ", "_"}, MaxText)}

NextCall ==
    \/ Call_map_courier_slug_to_code
    \/ Call_decode
    \/ Call_parse_tracking_status
    \/ Call_remove_non_alphanumeric
    \/ Call_patched_get_connection

SpecCall == InitCall /\ [][NextCall]_vars

-----------------------------------------------------------------------------
(* SpecAdapter: the requests one HTTPAdapter sends, each through           *)
(* patched_get_connection (lines 85-102) and then the connection's         *)
(* _new_conn (lines 59-63).  log holds what happened, in order.            *)

MaxSends == 3       \* requests per adapter
MaxPool == 2        \* the largest pool setting of the adapter

\* The proxies["all"] of the requests: none, one proxy, chains, a chain
\* ending in a comma, and chains with the rejected segment.
AdapterProxies ==
    {None, Some(HopA), Some(HopA \o <<",">> \o HopB), Some(HopB \o <<",">> \o HopA),
     Some(HopA \o <<",">>), Some(HopA \o <<",">> \o (<<"a", ":", "1">>)),
     Some((<<"a", ":", "1">>) \o <<",", " ">> \o HopC)}

LogEvent(ev, key, serial) == [ev |-> ev, key |-> key, serial |-> serial]
\* The ProxyChainManager objects built so far.
Built(l) == {i \in DOMAIN l : l[i].ev = "ProxyChainManager"}

\* HTTPAdapter.send(request, proxies=proxies) starts.
A_Send ==
    /\ done
    /\ ncalls < MaxSends
    /\ ncalls' = ncalls + 1
    /\ \E a \in AdapterProxies :
          /\ call' = [fn |-> "send", arg |-> [all |-> a]]
          /\ log' = Append(log, LogEvent("send", a, 0))
    /\ done' = FALSE
    /\ UNCHANGED <<cachevars, handlervars, daemonvars, value, adapter, pc, caller, trackings,
                   proxies, hours, cache_data, token, chk, data, reqs, response, result,
                   patched, http, all_trackings_results, di, dj>>

\* Lines 85-102: self.get_connection(url, proxies).
A_GetConnection ==
    /\ ~done
    /\ call.fn = "send"
    /\ LET r == patched_get_connection(adapter, "https://t.17track.net/restapi/track",
                                       call.arg, Cardinality(Built(log)) + 1)
       IN  /\ value' = [v |-> r]
           /\ adapter' = [adapter EXCEPT !.proxy_manager = r.proxy_manager]
           /\ log' = IF r.raised THEN Append(log, LogEvent("ValueError", call.arg.all, 0))
                     ELSE IF r.created
                     THEN Append(log, LogEvent("ProxyChainManager", call.arg.all,
                                               r.manager[1].serial))
                     ELSE log
           /\ done' = r.raised
           /\ call' = [call EXCEPT !.fn = IF r.raised THEN "send" ELSE "urlopen"]
    /\ UNCHANGED <<cachevars, handlervars, daemonvars, pc, caller, trackings,
                   proxies, hours, cache_data, token, chk, data, reqs, response, result,
                   patched, ncalls, http, all_trackings_results, di, dj>>

\* Lines 59-63: the pool's connection is opened; of a chain manager's pool,
\* through the hops of its chain.
A_NewConn ==
    /\ ~done
    /\ call.fn = "urlopen"
    /\ log' = Append(log, LogEvent("connect", call.arg.all,
                                   IF value.v.manager = None THEN 0
                                   ELSE value.v.manager[1].serial))
    /\ done' = TRUE
    /\ UNCHANGED <<cachevars, handlervars, daemonvars, call, value, adapter, pc, caller,
                   trackings, proxies, hours, cache_data, token, chk, data, reqs, response,
                   result, patched, ncalls, http, all_trackings_results, di, dj>>

InitAdapter ==
    /\ file = FileOf(json_dump(default_data))
    /\ tmp = NoFile
    /\ overlay = NoEntry
    /\ clock = 0
    /\ nticks = 0
    /\ HandlerIdle
    /\ PipeIdle
    /\ exe_type = "Track"
    /\ DaemonIdle
    /\ call = [fn |-> "none", arg |-> [all |-> None]]
    /\ value = [v |-> <<>>]
    /\ done = TRUE
    /\ adapter \in {HTTPAdapter(c, n, b) : c \in 1..MaxPool, n \in 1..MaxPool, b \in BOOLEAN}

NextAdapter ==
    \/ A_Send
    \/ A_GetConnection
    \/ A_NewConn

SpecAdapter == InitAdapter /\ [][NextAdapter]_vars

-----------------------------------------------------------------------------
(* SpecAlias: a caller of read() that changes the document it was given in *)
(* place, as save_last_event_id does (lines 298-302), and writes it or     *)
(* not.  value is the document the caller holds and what object it is.     *)

\* A read() that hands out a copy of the document.
Al_ReadCopy ==
    /\ LET r == read_cache_json(file, overlay, clock)
       IN  /\ ~r.raised
           /\ file' = r.file
           /\ overlay' = r.overlay
           /\ value' = [v |-> r.doc, object |-> "copy"]
    /\ call' = [fn |-> "read", arg |-> <<>>]
    /\ UNCHANGED <<tmp, clock, nticks, handlervars, pipevars, daemonvars, done, adapter>>

\* read(), lines 113-122: the object returned is the object in the cache,
\* found there (line 115) or just put there (lines 120-122).
Al_Read ==
    /\ LET r == read_cache_json(file, overlay, clock)
       IN  /\ ~r.raised
           /\ file' = r.file
           /\ overlay' = r.overlay
           /\ value' = [v |-> r.doc, object |-> "cached"]
    /\ call' = [fn |-> "read", arg |-> <<>>]
    /\ UNCHANGED <<tmp, clock, nticks, handlervars, pipevars, daemonvars, done, adapter>>

\* Lines 300-301, and the like of any caller: a key of the document held is
\* assigned; the cache holds the same object, or a copy was made.
Al_Change ==
    /\ call.fn # "none"
    /\ \E d \in {[value.v EXCEPT !.id = Some("tokB")],
                  [value.v EXCEPT !.ua = Some("<object>")]} :
          /\ d # value.v
          /\ value' = [value EXCEPT !.v = d]
          /\ overlay' = IF value.object = "cached" /\ overlay.present
                        THEN [overlay EXCEPT !.doc = d] ELSE overlay
    /\ call' = [fn |-> "change", arg |-> <<>>]
    /\ UNCHANGED <<file, tmp, clock, nticks, handlervars, pipevars, daemonvars, done, adapter>>

\* write(data), lines 131-140, with the document held.
Al_Write ==
    /\ call.fn # "none"
    /\ LET w == write_cache_json(value.v, file, tmp, overlay, clock)
       IN  /\ file' = w.file
           /\ tmp' = w.tmp
           /\ overlay' = w.overlay
           /\ call' = [fn |-> "write", arg |-> <<w.ok>>]
           /\ value' = [value EXCEPT !.object = IF w.ok THEN "cached" ELSE value.object]
    /\ UNCHANGED <<clock, nticks, handlervars, pipevars, daemonvars, done, adapter>>

NextAlias ==
    \/ Al_Read
    \/ Al_Change
    \/ Al_Write
    \/ Tick({1, TTL - 1})

SpecAlias == Init /\ [][NextAlias]_vars

-----------------------------------------------------------------------------
(* SpecPatch: the posts of successive tracking() calls, lines 379-392, and *)
(* the functions each of them enters to get its connection.  The proxy the *)
(* adapter selects is the environment's: line 381 passes no proxies.       *)

MaxPosts == 4          \* tracking() calls that reach their post
RecursionLimit == 3    \* sys.getrecursionlimit(), counted in get_connection frames

\* A patched function that looks get_connection up on the class when called.
real_get_connection_looked_up == IF patched' THEN "patched_get_connection" ELSE "get_connection"

\* Line 31: real_get_connection is bound once at import, before any patch.
real_get_connection == "get_connection"

\* adapter.get_connection(url, proxies) with the class attribute being fn:
\* the functions entered, in order.
RECURSIVE get_connection(_, _, _)
get_connection(fn, px, depth) ==
    IF depth >= RecursionLimit THEN <<"RecursionError">>
    ELSE IF fn = "get_connection" THEN <<fn>>
    ELSE LET r == patched_get_connection(adapter, "https://t.17track.net/restapi/track", px, 1)
         IN  IF r.via = "real_get_connection"
             THEN <<fn>> \o get_connection(real_get_connection, px, depth + 1)
             ELSE <<fn, r.via>>

\* tracking(), lines 379-392, with proxies truthy or not, and the selection
\* of the connection in the adapter's send.
P_Post ==
    /\ ncalls < MaxPosts
    /\ ncalls' = ncalls + 1
    /\ \E truthy \in BOOLEAN, a \in AdapterProxies :
          /\ patched' = IF truthy THEN patch_proxy_connection ELSE patched
          /\ log' = Append(log, IF truthy THEN "patch_proxy_connection" ELSE "No proxy configured")
          /\ call' = [fn |-> "post", arg |-> [all |-> a]]
    /\ value' = [v |-> get_connection(IF patched' THEN "patched_get_connection"
                                      ELSE "get_connection", call'.arg, 0)]
    /\ UNCHANGED <<cachevars, handlervars, daemonvars, done, adapter, pc, caller, trackings,
                   proxies, hours, cache_data, token, chk, data, reqs, response, result,
                   http, all_trackings_results, di, dj>>

SpecPatch == InitAdapter /\ [][P_Post]_vars

-----------------------------------------------------------------------------
(* SpecDaemon: the loops of rotate_daemon("Track", ...), lines 646-689, one *)
(* statement per step.  The loops share daemon_states; the lock of line 659 *)
(* is commented out.                                                       *)

MaxCycles == 2      \* cycles per loop

\* Lines 647-657: the loop starts.
D_Start(d) ==
    /\ dpc[d] = "start"
    /\ dpc' = [dpc EXCEPT ![d] = "test"]
    /\ UNCHANGED <<cachevars, handlervars, pipevars, callvars,
                   daemon_states, exe_type, dsaw, dheld, dcycles, derrors>>

\* A loop that runs its cycle whatever the status is.
D_TestIgnored(d) ==
    /\ dpc[d] = "test"
    /\ dsaw' = [dsaw EXCEPT ![d] = daemon_states]
    /\ dpc' = [dpc EXCEPT ![d] = "set"]
    /\ UNCHANGED <<cachevars, handlervars, pipevars, callvars,
                   daemon_states, exe_type, dheld, dcycles, derrors>>

\* Line 660: the status is read.
D_Test(d) ==
    /\ dpc[d] = "test"
    /\ dsaw' = [dsaw EXCEPT ![d] = daemon_states]
    /\ dpc' = [dpc EXCEPT ![d] = IF daemon_states THEN "skip" ELSE "set"]
    /\ UNCHANGED <<cachevars, handlervars, pipevars, callvars,
                   daemon_states, exe_type, dheld, dcycles, derrors>>

\* Lines 661-663: the cycle is skipped; after a second the loop tests again.
D_Skip(d) ==
    /\ dpc[d] = "skip"
    /\ dpc' = [dpc EXCEPT ![d] = "test"]
    /\ UNCHANGED <<cachevars, handlervars, pipevars, callvars,
                   daemon_states, exe_type, dsaw, dheld, dcycles, derrors>>

\* Line 666: the status is set.
D_Set(d) ==
    /\ dpc[d] = "set"
    /\ daemon_states' = TRUE
    /\ dheld' = [dheld EXCEPT ![d] = TRUE]
    /\ dpc' = [dpc EXCEPT ![d] = "call"]
    /\ UNCHANGED <<cachevars, handlervars, pipevars, callvars, exe_type, dsaw, dcycles, derrors>>

\* The attributes of cache_handler: what __init__ sets and the methods of
\* the class, lines 107-145.
JsonFileHandlerAttrs ==
    {"file_path", "cache", "default_data", "read", "write", "initialize"}

\* Lines 667-676.  For a track daemon the arguments of
\* check_last_event_id_expiry are evaluated first: cache_handler.get raises
\* AttributeError unless JsonFileHandler has a get, and only then would the
\* check run and save a token over an absent or expired one.  For any other
\* type the body prints and completes.
D_Call(d) ==
    /\ dpc[d] = "call"
    /\ IF exe_type = "Track" /\ "get" \notin JsonFileHandlerAttrs
       THEN /\ dpc' = [dpc EXCEPT ![d] = "except"]
            /\ UNCHANGED <<file, tmp, overlay>>
       ELSE /\ dpc' = [dpc EXCEPT ![d] = "finally"]
            /\ IF exe_type = "Track"
               THEN LET doc == read_cache_json(file, overlay, clock).doc
                        s == save_last_event_id("tokA", clock, file, tmp, overlay)
                        bad == Expired(doc.id, doc.exp, clock, doc.hour[1])
                    IN  /\ file' = IF bad THEN s.file ELSE file
                        /\ tmp' = IF bad THEN s.tmp ELSE tmp
                        /\ overlay' = IF bad THEN s.overlay ELSE overlay
               ELSE UNCHANGED <<file, tmp, overlay>>
    /\ UNCHANGED <<clock, nticks, handlervars, pipevars, callvars,
                   daemon_states, exe_type, dsaw, dheld, dcycles, derrors>>

\* Lines 678-681: the exception is caught and printed.
D_Except(d) ==
    /\ dpc[d] = "except"
    /\ derrors' = [derrors EXCEPT ![d] = derrors[d] + 1]
    /\ dpc' = [dpc EXCEPT ![d] = "finally"]
    /\ UNCHANGED <<cachevars, handlervars, pipevars, callvars,
                   daemon_states, exe_type, dsaw, dheld, dcycles>>

\* A finally block that leaves the status as it is.
D_FinallyKeeps(d) ==
    /\ dpc[d] = "finally"
    /\ dheld' = [dheld EXCEPT ![d] = FALSE]
    /\ dpc' = [dpc EXCEPT ![d] = "sleep"]
    /\ UNCHANGED <<cachevars, handlervars, pipevars, callvars,
                   daemon_states, exe_type, dsaw, dcycles, derrors>>

\* Lines 682-684: the status is cleared.
D_Finally(d) ==
    /\ dpc[d] = "finally"
    /\ daemon_states' = FALSE
    /\ dheld' = [dheld EXCEPT ![d] = FALSE]
    /\ dpc' = [dpc EXCEPT ![d] = "sleep"]
    /\ UNCHANGED <<cachevars, handlervars, pipevars, callvars, exe_type, dsaw, dcycles, derrors>>

\* Line 687: the loop sleeps and goes on to its next cycle.
D_Sleep(d) ==
    /\ dpc[d] = "sleep"
    /\ dcycles[d] < MaxCycles
    /\ dcycles' = [dcycles EXCEPT ![d] = dcycles[d] + 1]
    /\ dpc' = [dpc EXCEPT ![d] = "test"]
    /\ UNCHANGED <<cachevars, handlervars, pipevars, callvars,
                   daemon_states, exe_type, dsaw, dheld, derrors>>

InitDaemon ==
    /\ file \in {FileOf(json_dump(DocFresh(<<>>))), FileOf(json_dump(DocSession(<<>>, 0)))}
    /\ tmp = NoFile
    /\ overlay = NoEntry
    /\ clock = 0
    /\ nticks = 0
    /\ HandlerIdle
    /\ PipeIdle
    /\ call = [fn |-> "none", arg |-> <<>>]
    /\ value = [v |-> <<>>]
    /\ done = FALSE
    /\ adapter = (HTTPAdapter(10, 10, FALSE))
    /\ exe_type \in {"Track", "Other"}
    /\ DaemonIdle

NextDaemon ==
    \/ \E d \in DaemonLoops : D_Start(d)
    \/ \E d \in DaemonLoops : D_Test(d)
    \/ \E d \in DaemonLoops : D_Skip(d)
    \/ \E d \in DaemonLoops : D_Set(d)
    \/ \E d \in DaemonLoops : D_Call(d)
    \/ \E d \in DaemonLoops : D_Except(d)
    \/ \E d \in DaemonLoops : D_Finally(d)
    \/ \E d \in DaemonLoops : D_Sleep(d)

SpecDaemon == InitDaemon /\ [][NextDaemon]_vars

-----------------------------------------------------------------------------
(* Claims about the cache store, checked under SpecCache.                  *)

\* C6 (as claimed): a read() that finds no live overlay entry and a cache file
\* that is absent, empty or unparsable never raises: it leaves the file holding
\* the default document and returns the default document.
C6_ReadSelfHeals ==
    \A p \in Threads :
        (cret[p].op = "read" /\ cmiss[p] /\ (~cfile0[p].exists \/ Len(cfile0[p].data) = 0 \/ ~Parsable(cfile0[p].data)))
            => /\ cret[p].kind = "returned"
               /\ cret[p].doc = default_data
               /\ file = FileOf(json_dump(default_data))

\* C7: a write(doc) whose document cannot be serialized returns without
\* raising, never runs os.replace, and leaves cache.json as it was when the
\* call started.
C7_FailedWriteKeepsFile ==
    \A p \in Threads :
        /\ (cpc[p] \in {"w_open", "w_dump", "w_replace", "w_cache"} /\ DumpFails(carg[p]))
               => (~creplaced[p] /\ file = cfile0[p] /\ cpc[p] \in {"w_open", "w_dump"})
        /\ (cret[p].op = "write" /\ DumpFails(carg[p]))
               => (cret[p].kind = "returned" /\ ~creplaced[p] /\ file = cfile0[p])

\* C7's case: a write of an unserializable document has returned while a
\* non-empty cache.json existed.
C7_Witness ==
    /\ cret[MainThread].op = "write"
    /\ DumpFails(carg[MainThread])
    /\ NonEmpty(cfile0[MainThread])
    /\ Parsable(file.data)

C9_TargetNeverPartial ==
    [][file' = file \/ ~file'.exists \/ Parsable(file'.data)]_vars

-----------------------------------------------------------------------------
(* Claims about tracking() and the expiry check.                           *)

\* C1 (SpecBatch): tracking() raises 'invalid number of trackings provided'
\* exactly when the batch holds 0 or more than 40 items, and raises it before
\* any cache read, capture or POST of the call; every request sent carries
\* between 1 and 40 items, one per submitted item.
C1_BatchSizeValidated ==
    /\ (caller \in {"direct", "facade"} /\ pc \notin {"idle", "f_proxy", "t_validate"}
        /\ http.code # 404)
          => ((result = Raised("invalid number of trackings provided"))
                 <=> (Len(trackings) = 0 \/ Len(trackings) > BatchLimit))
    /\ result = Raised("invalid number of trackings provided")
          => (log = <<>> /\ reqs = <<>> /\ chk = NoChk)
    /\ \A i \in DOMAIN reqs :
          /\ Len(reqs[i].items) \in 1..BatchLimit
          /\ Len(reqs[i].items) = Len(trackings)

\* C1, witness: a batch of more than 40 items was refused.
C1_Witness ==
    /\ pc = "t_done"
    /\ Len(trackings) > BatchLimit
    /\ result = Raised("invalid number of trackings provided")
    /\ log = <<>>

\* C2 (Spec): every request tracking() sends carries a non-empty token that
\* the expiry check of the same call returned, and is sent after that check.
C2_RequestCarriesCheckedToken ==
    \A i \in DOMAIN reqs :
        /\ Truthy(reqs[i].last_event_id)
        /\ chk # NoChk
        /\ chk.ret = reqs[i].last_event_id

\* C3 (Spec): tracking() posts at most once per call; with a proxy configured
\* the request is routed through it with a timeout of 10 seconds, and without
\* one it is sent directly with no timeout.
C3_OnePostRoutedByProxy ==
    /\ Len(reqs) <= 1
    /\ \A i \in DOMAIN reqs :
          IF (proxies.kind = "dict" /\ \E j \in DOMAIN proxies.all : proxies.all[j] # None)
          THEN reqs[i].proxies # None /\ reqs[i].timeout = Some(PostTimeout)
          ELSE reqs[i].proxies = None /\ reqs[i].timeout = None

\* C4 (Spec): the expiry check treats the token as invalid exactly when the
\* id is absent, the timestamp is absent, or now >= timestamp + margin; a
\* valid token is returned as stored, with no capture and no cache write.
C4_ValidTokenReturnedUnchanged ==
    chk # NoChk =>
        LET valid == /\ Truthy(chk.id)
                     /\ chk.exp # None
                     /\ chk.now < strptime(chk.exp) + hours * SecondsPerHour
        IN  /\ chk.expired = ~valid
            /\ valid => /\ chk.ret = chk.id
                        /\ chk.captures = 0
                        /\ ~chk.wrote
                        /\ "capture" \notin Range(log)
                        /\ "write" \notin Range(log)

\* C4, witness: a check called by itself returned a stored token whose
\* timestamp is in the past but within the margin.
C4_Witness ==
    /\ caller = "check"
    /\ pc = "t_done"
    /\ chk # NoChk
    /\ ~chk.expired
    /\ chk.exp # None
    /\ strptime(chk.exp) < chk.now
    /\ chk.ret = chk.id

\* C5 (Spec), as stated: whenever the stored timestamp is earlier than the
\* current time when the expiry check runs, capture_last_event_id is invoked
\* at least once during the check.
C5_PastTimestampCaptures ==
    (/\ chk # NoChk
     /\ chk.exp # None
     /\ strptime(chk.exp) < chk.now
     /\ pc # "chk_capture")
        => chk.captures >= 1

\* C5 (Spec), amended: whenever the current time has reached the stored
\* timestamp plus the refresh margin when the expiry check runs,
\* capture_last_event_id is invoked at least once during the check.
C5_ExpiredTokenCaptures ==
    (/\ chk # NoChk
     /\ chk.exp # None
     /\ chk.now >= strptime(chk.exp) + hours * SecondsPerHour
     /\ pc # "chk_capture")
        => chk.captures >= 1

\* C5, witness: a token at the end of its margin was replaced by a captured one.
C5_Witness ==
    /\ chk # NoChk
    /\ chk.exp # None
    /\ chk.now >= strptime(chk.exp) + hours * SecondsPerHour
    /\ chk.captures >= 1
    /\ chk.wrote

C11_MissingPayloadPlaceholder ==
    result.kind = "returned" =>
        \A i \in DOMAIN response.dat :
            LET e == response.dat[i]
            IN  (/\ e.delay # Some(1)
                 /\ \A j \in DOMAIN response.dat : j > i => response.dat[j].no # e.no)
                    => /\ DictHas(result.map, e.no)
                       /\ DictGet(result.map, e.no) =
                              IF e.track = None \/ e.track = Some(EmptyObject)
                              THEN Placeholder(e.no)
                              ELSE DecodePayload(e.no, e.delay, e.track[1])

\* C11, witness: an answer with an entry without payload before an entry
\* with one was decoded to the placeholder and the decoded payload.
C11_Witness ==
    /\ result.kind = "returned"
    /\ Len(response.dat) = 3
    /\ response.dat[1].track = None
    /\ response.dat[2].track \notin {None, Some(EmptyObject)}
    /\ response.dat[3].track = Some(EmptyObject)
    /\ response.dat[2].no # response.dat[3].no
    /\ DictGet(result.map, response.dat[3].no) = Placeholder(response.dat[3].no)
    /\ DictGet(result.map, response.dat[2].no).retry_delay = FALSE

-----------------------------------------------------------------------------
(* Claims about single functions, checked under SpecCall.                  *)

\* C12 (SpecCall): map_courier_slug_to_code returns 0 for an absent or empty
\* slug and for a slug that equals no courier's name, and for a slug that
\* equals a courier's name up to the case of its letters it returns the key
\* of the first such courier of the table; a slug that is only a part of a
\* name resolves to 0.
C12_SlugResolvesByExactName ==
    (done /\ call.fn = "map_courier_slug_to_code") =>
        LET SameLetter(a, b) ==
                a = b \/ \E k \in DOMAIN UpperCase :
                             {a, b} = {UpperCase[k], LowerCase[k]}
            Same(s, t) ==
                Len(s) = Len(t) /\ \A i \in DOMAIN s : SameLetter(s[i], t[i])
            matches == IF call.arg = None THEN {}
                       ELSE {i \in DOMAIN courier_cache :
                                Same(courier_cache[i].name, call.arg[1])}
        IN  IF call.arg = None \/ call.arg = Some(<<>>) \/ matches = {}
            THEN value.v = 0
            ELSE \E i \in matches :
                    /\ \A j \in matches : i <= j
                    /\ value.v = courier_cache[i].key

\* C12, witness: a slug in mixed case resolved to the key of the first of
\* the two couriers it names.
C12_Witness ==
    /\ done
    /\ call = [fn |-> "map_courier_slug_to_code", arg |-> Some(<<"u", "p", "S">>)]
    /\ value.v = courier_cache[1].key
    /\ value.v # courier_cache[3].key

\* C13 (SpecCall): the country, status and courier objects of a decoded
\* payload depend on the codes only: two entries with the same code get the
\* same object; an absent b, c, w1 or w2 gives null; an absent e gives the
\* empty object, and e = 0 gives the status the table holds for 0.
C13_DecodeByCodeOnly ==
    (done /\ call.fn = "decode") =>
        LET p == call.arg[1].track[1]
            q == call.arg[2].track[1]
            r == value.v[1]
            t == value.v[2]
        IN  /\ p.b = q.b => r.country1 = t.country1
            /\ p.b = q.c => r.country1 = t.country2
            /\ p.e = q.e => r.shorten_status = t.shorten_status
            /\ p.w1 = q.w1 => r.courier1 = t.courier1
            /\ p.w1 = q.w2 => r.courier1 = t.courier2
            /\ p.b = None => r.country1 = None
            /\ p.c = None => r.country2 = None
            /\ q.c = None => t.country2 = None
            /\ p.w1 = None => r.courier1 = None
            /\ q.w2 = None => t.courier2 = None
            /\ p.e = None => r.shorten_status = Some(EmptyObject)
            /\ p.e = Some(0) =>
                  \E i \in DOMAIN status_cache :
                      /\ status_cache[i].key = 0
                      /\ r.shorten_status =
                            Some([t |-> "status", code |-> 0, name |-> status_cache[i].name])

\* C13, witness: two entries with the same country and courier codes were
\* decoded, the first with status code 0 and the second with none.
C13_Witness ==
    /\ done
    /\ call.fn = "decode"
    /\ call.arg[1].track[1].b = Some(840)
    /\ call.arg[2].track[1].b = Some(840)
    /\ call.arg[1].track[1].w1 = Some(100001)
    /\ call.arg[2].track[1].w1 = Some(100001)
    /\ call.arg[1].track[1].e = Some(0)
    /\ call.arg[2].track[1].e = None
    /\ value.v[1].country1 = value.v[2].country1
    /\ value.v[1].country1 # None
    /\ value.v[1].courier1 = value.v[2].courier1
    /\ value.v[1].shorten_status # value.v[2].shorten_status

\* C14 (SpecCall): the decoded transit_time is null when f is negative and
\* is f itself when f >= 0, 0 included.
C14_TransitTime ==
    (done /\ call.fn = "decode") =>
        LET f == call.arg[1].track[1].f[1]
        IN  value.v[1].transit_time = IF f < 0 THEN None ELSE Some(f)

\* C14, witness: a transit time of 0 was decoded to 0.
C14_Witness ==
    /\ done
    /\ call.fn = "decode"
    /\ call.arg[1].track[1].f = Some(0)
    /\ value.v[1].transit_time = Some(0)

\* C15 (SpecCall): the decoded events are the non-empty wire events in the
\* order of the wire list; an event with an empty location1 and a non-empty
\* location2 gets location1 = the wire location2 and location2 = "", and
\* every other event keeps both locations.
C15_LocationPromotion ==
    (done /\ call.fn = "parse_tracking_status") =>
        LET Present(ev) == ev # None
            kept == SelectSeq(call.arg, Present)
        IN  /\ Len(value.v) = Len(kept)
            /\ \A i \in DOMAIN kept :
                  LET w == kept[i][1]
                      r == value.v[i]
                  IN  /\ r.time = w.a /\ r.country = w.b /\ r.status = w.z
                      /\ IF w.c = "" /\ w.d # ""
                         THEN r.location1 = w.d /\ r.location2 = ""
                         ELSE r.location1 = w.c /\ r.location2 = w.d

\* C15, witness: of three wire events the empty one was dropped, the one
\* with both locations was kept as it was and the one with location2 only
\* had it moved to location1.
C15_Witness ==
    /\ done
    /\ call.fn = "parse_tracking_status"
    /\ call.arg = <<Event("Hub", "Louisville"), None, Event("", "Louisville")>>
    /\ Len(value.v) = 2
    /\ value.v[1].location1 = "Hub" /\ value.v[1].location2 = "Louisville"
    /\ value.v[2].location1 = "Louisville" /\ value.v[2].location2 = ""

\* C18 (SpecCall): remove_non_alphanumeric applied to its own result changes
\* nothing, and its result holds the characters a-z, A-Z and 0-9 of the
\* text, all of them and in their order.
C18_StripIdempotent ==
    (done /\ call.fn = "remove_non_alphanumeric") =>
        LET Alnum(c) == c \in {"0", "1", "2", "3", "4", "5", "6", "7", "8", "9"} \cup Range(UpperCase) \cup Range(LowerCase)
        IN  /\ value.again = value.v
            /\ \A i \in DOMAIN value.v : Alnum(value.v[i])
            /\ value.v = SelectSeq(call.arg, Alnum)

\* C18, witness: a text with other characters between letters and digits was
\* stripped of them.
C18_Witness ==
    /\ done
    /\ call.fn = "remove_non_alphanumeric"
    /\ call.arg = <<"Z", "-", "_", "7">>
    /\ value.v = <<"Z", "7">>
    /\ value.again = <<"Z", "7">>

-----------------------------------------------------------------------------
(* Claims about the backend's status, the proxy chain and the daemon.      *)

\* C16 (Spec): when the backend answers with the status numNon, tracking()
\* raises the invalid-tracking-number error; when it answers with any other
\* status than Ok, tracking() raises the generic error; both errors carry
\* the backend's status, and no result mapping is returned.
C16_BackendStatusRaises ==
    (pc \in {"t_done", "f_done"} /\ response.kind = "json" /\ response.msg # "Ok") =>
        /\ result = RaisedWith(IF response.msg = "numNon"
                               THEN "invalid tracking number provided"
                               ELSE "error retrieving tracking information",
                               response.msg)
        /\ result.map = <<>>
        /\ all_trackings_results = <<>>

\* C16, witness: a call the backend answered with numNon ended with the
\* invalid-tracking-number error.
C16_Witness ==
    /\ pc = "t_done"
    /\ response.kind = "json"
    /\ response.msg = "numNon"
    /\ result.kind = "raised"
    /\ result.msg = "invalid tracking number provided"
    /\ result.detail = "numNon"

\* C17 (SpecCall): a proxy string with a comma becomes a chain whose hops
\* are its non-empty segments, trimmed, in the order of the string; a proxy
\* without a comma, and no proxy, are handed to the original get_connection
\* with the arguments as received, and no chain manager is created.
C17_ChainInSegmentOrder ==
    (done /\ call.fn = "patched_get_connection") =>
        LET parts == call.arg.parts
            Named(g) == g.hop # <<>>
            hops == SelectSeq(parts, Named)
            Hop(h) == IF h = HopC
                      THEN [url |-> <<"s", "o", "c", "k", "s", "5", ":", "/", "/",
                                      "c", ":", "3">>,
                            rdns |-> Some(TRUE)]
                      ELSE [url |-> h, rdns |-> None]
        IN  IF Len(parts) >= 2
            THEN /\ value.v.via = "ProxyChainManager"
                 /\ value.v.chain # None
                 /\ Len(value.v.chain[1]) = Len(hops)
                 /\ \A i \in DOMAIN hops : value.v.chain[1][i] = Hop(hops[i].hop)
            ELSE /\ value.v.via = "real_get_connection"
                 /\ value.v.args = <<"https://t.17track.net/restapi/track", call.arg.proxies>>
                 /\ value.v.proxy_manager = <<>>
                 /\ value.v.chain = None

\* C17, witness: 'socks5://a:1,socks5://b:2' became the chain of hop a:1 and
\* then hop b:2.
C17_Witness ==
    /\ done
    /\ call.fn = "patched_get_connection"
    /\ call.arg.parts = <<[hop |-> HopA, padded |-> FALSE], [hop |-> HopB, padded |-> FALSE]>>
    /\ value.v.chain = Some(<<[url |-> HopA, rdns |-> None], [url |-> HopB, rdns |-> None]>>)

\* C19 (SpecDaemon), as stated: of the loops of one daemon type, at most
\* one is between setting the status flag and clearing it at any time.
C19_AtMostOneInCycle ==
    \A d \in DaemonLoops, e \in DaemonLoops : (dheld[d] /\ dheld[e]) => d = e

\* C19 (SpecDaemon), amended: a loop that reads the status flag as set skips
\* its cycle, and a loop is between setting the flag and clearing it only
\* after it read the flag as not set.
C19_SkipsWhenFlagRead ==
    \A d \in DaemonLoops :
        /\ dpc[d] = "skip" => dsaw[d]
        /\ dpc[d] = "set" => ~dsaw[d]
        /\ dheld[d] => (~dsaw[d] /\ dpc[d] \in {"call", "except", "finally"})

\* C19, witness: one loop is in its cycle and the other, having read the
\* flag as set, skips.
C19_Witness ==
    \E d \in DaemonLoops, e \in DaemonLoops :
        /\ d # e
        /\ dheld[d]
        /\ dpc[e] = "skip"
        /\ dsaw[e]

\* C20 (SpecDaemon): a cycle that set the status flag leaves it false when
\* it ends, whether its body completed or raised; the exception raised
\* inside the cycle is caught and logged, and the loop goes on to sleep and
\* to its next cycle.
C20_FlagClearedAndLoopGoesOn ==
    [][\A d \in DaemonLoops :
          /\ (dheld[d] /\ ~dheld'[d]) => (daemon_states' = FALSE /\ dpc'[d] = "sleep")
          /\ (dpc[d] = "call" /\ dpc'[d] # "call")
                => (dpc'[d] \in {"except", "finally"} /\ dheld'[d])
          /\ (dpc[d] = "except" /\ dpc'[d] # "except")
                => (dpc'[d] = "finally" /\ derrors'[d] = derrors[d] + 1)
          /\ (dpc[d] = "finally" /\ dpc'[d] # "finally") => ~dheld'[d]
          /\ (dpc[d] = "sleep" /\ dpc'[d] # "sleep") => dpc'[d] = "test"]_vars

\* C20, witness: a loop whose cycle raised is at the test of its next cycle,
\* the error logged and the flag false.
C20_Witness ==
    \E d \in DaemonLoops :
        /\ dcycles[d] >= 1
        /\ derrors[d] >= 1
        /\ dpc[d] = "test"
        /\ ~dheld[d]
        /\ daemon_states = FALSE

\* C29 (SpecCall): the status of a decoded result is a status record or the
\* empty object, never null, also for a wire code the status table lacks.
C29_StatusNeverNull ==
    (done /\ call.fn = "decode") =>
        \A i \in 1..2 : value.v[i].shorten_status # None

\* C22 (Spec): an exception of tracking(), whether from the validation, the
\* transport, the backend's status or elsewhere in the pipeline, reaches the
\* caller of tracking(), and the facade answers it with status "error" and
\* HTTP code 500; the facade always ends with a response.
C22_FacadeCatchesEverything ==
    /\ (pc = "f_done" /\ result.kind = "raised") =>
           (http.code = 500 /\ http.status = "error" /\ http.message # "none")
    /\ pc = "f_done" => http.code \in {200, 404, 500}
    /\ (pc = "t_done" /\ caller \in {"facade", "direct"}) =>
           /\ (Len(trackings) = 0 \/ Len(trackings) > BatchLimit) => result.kind = "raised"
           /\ response.kind = "exception" => result.kind = "raised"
           /\ (response.kind = "json" /\ response.msg # "Ok") => result.kind = "raised"
           /\ result.kind \in {"raised", "returned"}

\* C22, witness: the POST of a facade call failed in the transport and the
\* facade answered 500.
C22_Witness ==
    /\ pc = "f_done"
    /\ caller = "facade"
    /\ response.kind = "exception"
    /\ result = Raised("RequestException")
    /\ http.code = 500

\* C24 (Spec), as stated: the expiry check leaves its capture loop only when
\* an attempt has returned a non-empty token.
C24_LoopEndsOnlyWithToken ==
    [][(pc = "chk_capture" /\ pc' # "chk_capture") => Truthy(token')]_vars

\* C24 (Spec), amended: the capture loop goes on after an empty attempt; it
\* ends with a non-empty token, which is then saved under TRACKING and
\* returned as it was captured, or with the exception of an attempt, and
\* then nothing is saved or returned; the check never returns an empty token.
C24_RetryUntilTokenOrException ==
    [][/\ (pc = "chk_capture" /\ chk'.captures > chk.captures) =>
              \/ ~Truthy(token') /\ pc' = "chk_capture" /\ file' = file
              \/ Truthy(token') /\ pc' = "chk_save" /\ file' = file
              \/ /\ result'.kind = "raised"
                 /\ pc' = "t_done"
                 /\ file' = file
                 /\ chk'.ret = None
       /\ (pc = "chk_save" /\ chk'.wrote) =>
              /\ Truthy(token)
              /\ chk'.ret = token
              /\ json_load(file'.data).id = token
       /\ (chk'.expired /\ chk'.ret # None) => (Truthy(chk'.ret) /\ chk'.wrote)]_vars

\* C24, witness: two attempts came back empty, a later one returned a token,
\* and the check saved and returned it.
C24_Witness ==
    /\ chk.expired
    /\ chk.captures > 2
    /\ chk.wrote
    /\ chk.ret = Some("tokA")
    /\ json_load(file.data).id = Some("tokA")

\* C30 (Spec): the document save_last_event_id writes differs from the one
\* it read only in last_event_id and last_event_id_expiry of TRACKING: the
\* user agent, the proxy list, the refresh interval and the root keys are as
\* read.
C30_SaveKeepsOtherKeys ==
    [][(pc = "chk_save" /\ chk'.wrote) =>
          LET old == read_cache_json(file, overlay, clock).doc
              new == json_load(file'.data)
          IN  /\ \A k \in {"rid", "rexp", "ua", "proxy", "hour"} : new[k] = old[k]
              /\ new.id = token
              /\ new.exp = strftime(clock)
              /\ overlay'.doc = new]_vars

\* C30, witness: a session was saved into a document that holds a user
\* agent, two proxies and a refresh interval, over an expired session.
C30_Witness ==
    /\ chk.wrote
    /\ chk.id = Some("tok0")
    /\ json_load(file.data).id = Some("tokA")
    /\ json_load(file.data).ua = Some("Mozilla/5.0")
    /\ json_load(file.data).proxy = <<"socks5://a:1", "socks5://a:1,socks5://b:2">>
    /\ json_load(file.data).hour = Some(1)

\* C21 (SpecDaemon): once a loop of the track daemon has finished a cycle,
\* the cache holds a session token, also when it held none before.
C21_CycleRefreshesToken ==
    \A d \in DaemonLoops :
        (exe_type = "Track" /\ dcycles[d] >= 1) => Truthy(json_load(file.data).id)

C23_BothWritesSucceed ==
    (\A p \in Threads : cpc[p] = "idle" /\ cret[p].op = "write") =>
        /\ \A p \in Threads : cret[p].kind = "returned"
        /\ \E p \in Threads : file = FileOf(json_dump(carg[p]))

\* C25 (SpecRace): the expiry check judges the id of its first read by the
\* expiry its second read returns, whatever another thread saved between
\* the two; a pair it finds valid it answers with the id of the first read.
C25_JudgesIdByLaterExpiry ==
    [][(pc = "chk_exp" /\ pc' \in {"chk_capture", "t_done"} /\ result'.kind # "raised") =>
          /\ chk'.id = chk.id
          /\ chk'.exp = read_cache_json(file, overlay, clock).doc.exp
          /\ chk'.expired = Expired(chk.id, chk'.exp, clock, hours)
          /\ ~chk'.expired => chk'.ret = chk.id]_vars

\* C25, witness: the check read the id of a session saved at second 0, one
\* hour later; another thread then saved a session; the check read the new
\* expiry, found the pair valid and returned the old id, while the cache
\* holds the new one: no save stored that id with that expiry.
C25_Witness ==
    /\ pc = "t_done"
    /\ caller = "check"
    /\ chk.id = Some("tok0")
    /\ chk.exp = strftime(chk.now)
    /\ chk.now >= SecondsPerHour
    /\ ~chk.expired
    /\ chk.ret = Some("tok0")
    /\ json_load(file.data).id = Some("tokB")
    /\ json_load(file.data).exp = chk.exp

\* C27 (SpecAdapter): an adapter builds at most one ProxyChainManager for a
\* raw chain string; the manager is built with the adapter's pool settings
\* and stored under that string, and every connection made for the string
\* is made by that one manager.
C27_OneManagerPerChainString ==
    /\ \A i \in Built(log), j \in Built(log) : log[i].key = log[j].key => i = j
    /\ \A i \in DOMAIN adapter.proxy_manager :
          LET e == adapter.proxy_manager[i]
          IN  /\ "," \in Range(e.k)
              /\ e.v.num_pools = adapter.pool_connections
              /\ e.v.maxsize = adapter.pool_maxsize
              /\ e.v.block = adapter.pool_block
              /\ e.v.proxychain = parse_proxychain_url(e.k)
              /\ \E b \in Built(log) : log[b].key = Some(e.k) /\ log[b].serial = e.v.serial
    /\ \A i \in Built(log) :
          /\ DictHas(adapter.proxy_manager, log[i].key[1])
          /\ DictGet(adapter.proxy_manager, log[i].key[1]).serial = log[i].serial
    /\ \A i \in DOMAIN log :
          (log[i].ev = "connect" /\ log[i].serial # 0) =>
              /\ DictHas(adapter.proxy_manager, log[i].key[1])
              /\ DictGet(adapter.proxy_manager, log[i].key[1]).serial = log[i].serial

\* C27, witness: three requests with 'socks5://a:1,socks5://b:2' were
\* connected by the one manager the first of them built, with pool settings
\* other than the defaults.
C27_Witness ==
    /\ done
    /\ Cardinality({i \in DOMAIN log : log[i] = LogEvent("connect", Some(HopA \o <<",">> \o HopB), 1)}) = MaxSends
    /\ Cardinality(Built(log)) = 1
    /\ adapter.proxy_manager[1].v.maxsize = MaxPool
    /\ adapter.proxy_manager[1].v.block

\* C28 (SpecAdapter): a request whose chain string has a malformed segment
\* ends with the error of the constructor as the next thing that happens:
\* no manager is built or stored for the string and no connection is ever
\* opened for it, however often it is requested.
C28_MalformedChainFailsFast ==
    \A i \in DOMAIN log :
        LET key == log[i].key
            bad == /\ key # None
                   /\ "," \in Range(key[1])
                   /\ \E h \in Range(parse_proxychain_url(key[1])) : Malformed(h.url)
        IN  bad =>
              /\ log[i].ev \in {"send", "ValueError"}
              /\ ~DictHas(adapter.proxy_manager, key[1])
              /\ log[i].ev = "send" =>
                    IF i = Len(log) THEN ~done /\ call.fn = "send"
                    ELSE log[i + 1] = LogEvent("ValueError", key, 0)

\* C28, witness: 'socks5://a:1,a:1' was requested, raised, was requested
\* again after a request that connected through a chain, and raised again.
C28_Witness ==
    /\ done
    /\ Len(log) = 7
    /\ log[2] = LogEvent("ValueError", Some(HopA \o <<",">> \o (<<"a", ":", "1">>)), 0)
    /\ log[5].ev = "connect"
    /\ log[5].serial = 1
    /\ log[7] = log[2]
    /\ Len(adapter.proxy_manager) = 1

\* C31 (SpecPatch): once a tracking() call has run patch_proxy_connection,
\* HTTPAdapter.get_connection is patched_get_connection for every later
\* post, with or without proxies and however often the patch is repeated; a
\* post whose selected proxy has no comma then enters patched_get_connection
\* and from it the import-time get_connection once, with no recursion, and
\* before any patch a post enters the original alone.
C31_PatchIdempotent ==
    /\ "patch_proxy_connection" \in Range(log) => patched
    /\ "patch_proxy_connection" \notin Range(log) => ~patched
    /\ call.fn = "post" =>
          LET a == call.arg.all
              chain == a # None /\ "," \in Range(a[1])
          IN  /\ (patched /\ ~chain) => value.v = <<"patched_get_connection", "get_connection">>
              /\ (patched /\ chain) => value.v = <<"patched_get_connection", "ProxyChainManager">>
              /\ ~patched => value.v = <<"get_connection">>

\* C31, witness: after three posts with proxies and a fourth without, a
\* request through 'socks5://a:1' entered patched_get_connection and then
\* the original get_connection.
C31_Witness ==
    /\ log = <<"patch_proxy_connection", "patch_proxy_connection", "patch_proxy_connection",
               "No proxy configured">>
    /\ patched
    /\ call.arg.all = Some(HopA)
    /\ value.v = <<"patched_get_connection", "get_connection">>

\* C32 (SpecBatch): the mapping tracking() returns for an 'Ok' response has
\* one key for each distinct 'no' of the response's entries and no other
\* key; the value of a key is the result of the last entry with that 'no',
\* and its 'tracking' field is the key.
C32_KeysAreEchoedNumbers ==
    (pc = "t_done" /\ result.kind = "returned" /\ caller \in {"facade", "direct"}) =>
        LET map == result.map
            dat == response.dat
        IN  /\ response.msg = "Ok"
            /\ {map[i].k : i \in DOMAIN map} = {dat[i].no : i \in DOMAIN dat}
            /\ \A i \in DOMAIN map, j \in DOMAIN map : map[i].k = map[j].k => i = j
            /\ \A i \in DOMAIN map :
                  LET last == CHOOSE n \in DOMAIN dat :
                                  /\ dat[n].no = map[i].k
                                  /\ \A n2 \in DOMAIN dat : dat[n2].no = map[i].k => n2 <= n
                  IN  /\ map[i].v.tracking = map[i].k
                      /\ map[i].v = IF dat[last].delay = Some(1)
                                    THEN Placeholder(map[i].k)
                                    ELSE DecodeEntry(<<>>, dat[last])[1].v

\* C32, witness: four numbers were submitted, two of them twice; the
\* backend echoed all four, the first without a payload; the mapping has
\* the two distinct numbers, and the first holds the result of its later
\* entry, not the placeholder of its earlier one.
C32_Witness ==
    /\ pc = "t_done"
    /\ result.kind = "returned"
    /\ Len(trackings) = 4
    /\ Len(response.dat) = 4
    /\ response.dat[1].no = response.dat[3].no
    /\ response.dat[1].track = None
    /\ Len(result.map) = 2
    /\ result.map[1].k = response.dat[1].no
    /\ result.map[1].v # Placeholder(result.map[1].k)
    /\ result.map[1].v.transit_time = Some(3)

\* C33 (Spec): the save that ends a refresh leaves the captured token, which
\* the check returns, and the timestamp of the moment of the save in the
\* TRACKING section, on disk and for the next read; a check that finds the
\* refreshed session before its timestamp plus the margin returns the
\* stored token with two reads, no capture and no write.
C33_RefreshedSessionIsReused ==
    [][/\ (pc = "chk_save" /\ chk'.wrote) =>
             LET d == read_cache_json(file', overlay', clock').doc
             IN  /\ chk'.ret = token
                 /\ Truthy(token)
                 /\ d.id = token
                 /\ d.exp = strftime(clock)
                 /\ json_load(file'.data) = d
       /\ (/\ pc = "chk_read"
           /\ read_cache_json(file, overlay, clock).doc.id = Some("tokA")
           /\ hours >= 1
           /\ clock < strptime(read_cache_json(file, overlay, clock).doc.exp)
                         + hours * SecondsPerHour) =>
             /\ chk'.ret = Some("tokA")
             /\ chk'.captures = 0
             /\ ~chk'.wrote
             /\ pc' \notin {"chk_capture", "chk_save"}
             /\ log' = log \o <<"read", "read">>
             /\ file' = file
             /\ tmp' = tmp]_vars

\* C33, witness: the second check of a behaviour, made half an hour or more
\* after the first refreshed the session, returned the refreshed token
\* without a capture and without a write.
C33_Witness ==
    /\ pc = "t_done"
    /\ caller = "check"
    /\ ncalls = 2
    /\ chk.ret = Some("tokA")
    /\ chk.captures = 0
    /\ ~chk.wrote
    /\ json_load(file.data).id = Some("tokA")
    /\ clock > strptime(json_load(file.data).exp)
    /\ log = <<"read", "read">>

\* C34 (SpecAlias): a read() made while the overlay entry is live returns
\* the document as its last holder left it, changes made in place included,
\* whether or not it was written, and leaves the file alone; a change made
\* in place touches no file, so the overlay and the file differ until the
\* document is written or the entry expires, and a read() made after the
\* expiry returns what the file holds.
C34_ReadsShareOneObject ==
    [][clock' = clock =>
       /\ (call.fn # "none" /\ call'.fn = "read" /\ overlay.present /\ clock < overlay.expires) =>
             /\ value'.v = value.v
             /\ overlay'.doc = value.v
             /\ file' = file
       /\ (call'.fn = "read" /\ ~(overlay.present /\ clock < overlay.expires)) =>
             value'.v = json_load(file.data)
       /\ (call'.fn = "change" /\ overlay.present /\ clock < overlay.expires) =>
             /\ file' = file
             /\ overlay'.doc = value'.v
             /\ overlay'.doc # overlay.doc
             /\ overlay'.expires = overlay.expires
       /\ (call'.fn = "write" /\ ~call'.arg[1]) =>
             (file' = file /\ overlay' = overlay)]_vars

\* C34, witness: the holder gave the document a User_Agent json cannot
\* encode, its write() failed, and a read() made while the entry was live
\* returned the changed document, which the file does not hold.
C34_Witness ==
    /\ call.fn = "read"
    /\ value.v.ua = Some("<object>")
    /\ overlay.present
    /\ clock < overlay.expires
    /\ overlay.doc = value.v
    /\ tmp.exists
    /\ Parsable(file.data)
    /\ json_load(file.data) # value.v
    /\ json_load(file.data).ua = Some("Mozilla/5.0")

=============================================================================
